---- MODULE Spec2Model ----
(***************************************************************************)
(* A model of the swap-token path of the Injective wallet MCP server       *)
(* (src/src/index.ts): the tool-call handler's swap-token branch,          *)
(* swapToken with its remote calls as suspension points, simulateSwap,     *)
(* normalizeDenom and the slippage pricing.                                *)
(*                                                                         *)
(* Strings that the code inspects character by character (denominations)   *)
(* are sequences of one-character strings.  Numbers are kept exact:        *)
(* a slippage is pct + tiny * 10^-17 percent, a price is                   *)
(* c / 100 + e * 10^-18.                                                   *)
(***************************************************************************)
EXTENDS Integers, Sequences, FiniteSets, TLC

None == [kind |-> "none"]

---------------------------------------------------------------------------
(* Denominations and normalizeDenom                                        *)

inj == <<"i", "n", "j">>
INJ == <<"I", "N", "J">>
usdt == <<"u", "s", "d", "t">>
atom == <<"a", "t", "o", "m">>
factoryPrefix == <<"f", "a", "c", "t", "o", "r", "y", "/">>
ibcPrefix == <<"i", "b", "c", "/">>

\* String.prototype.toUpperCase, character by character.  U+0131 (dotless i)
\* has the upper case "I", like "i".
UpperChar(c) ==
    CASE c = "i" -> "I"
      [] c = "dotless_i" -> "I"
      [] c = "n" -> "N"
      [] c = "j" -> "J"
      [] c = "x" -> "X"
      [] c = "u" -> "U"
      [] c = "s" -> "S"
      [] c = "d" -> "D"
      [] c = "t" -> "T"
      [] c = "a" -> "A"
      [] c = "o" -> "O"
      [] c = "m" -> "M"
      [] c = "f" -> "F"
      [] c = "c" -> "C"
      [] c = "r" -> "R"
      [] c = "y" -> "Y"
      [] c = "b" -> "B"
      [] OTHER -> c

toUpperCase(d) == [i \in 1..Len(d) |-> UpperChar(d[i])]

startsWith(d, p) == Len(d) >= Len(p) /\ SubSeq(d, 1, Len(p)) = p

\* A variant that removes the factory/ prefix, as the function's doc comment
\* describes, instead of returning the denomination unchanged.
normalizeDenomStripping(denom) ==
    IF startsWith(denom, factoryPrefix)
    THEN SubSeq(denom, Len(factoryPrefix) + 1, Len(denom))
    ELSE IF startsWith(denom, ibcPrefix) THEN denom
    ELSE IF toUpperCase(denom) = INJ THEN inj
    ELSE denom

normalizeDenom(denom) ==
    IF startsWith(denom, factoryPrefix) \/ startsWith(denom, ibcPrefix)
    THEN denom
    ELSE IF toUpperCase(denom) = INJ THEN inj
    ELSE denom

---------------------------------------------------------------------------
(* Slippage and the execution price                                        *)

\* A slippage value: pct + tiny * 10^-17 percent; tiny > 0 only with pct = 0.
MaxTiny == 2
Slip(p, t) == [pct |-> p, tiny |-> t]
SlipLess(a, b) == a.pct < b.pct \/ (a.pct = b.pct /\ a.tiny < b.tiny)

\* 2^-53 and 2^-54 in units of 10^-19, rounded down: half the spacing of the
\* doubles just above and just below 1.
HalfUlpAbove1 == 1110
HalfUlpBelow1 == 555

\* String(1 + p / 100) - (100 + p) / 100, in units of 10^-18, for p = 0..100:
\* what IEEE 754 double arithmetic and the shortest round-trip printing give.
PlusErr ==
    <<0, 0, 0, 0, 0, 0, 0, 0, 0, 0, 0, 0, 0, 0, 100, 0, 0, 0, 0, 0, 0, 0, 0,
      0, 0, 0, 0, 0, 0, 0, 0, 0, 0, 0, 0, 0, -100, 0, 0, 100, 0, 0, 0, 0, 0,
      0, 0, 0, 0, 0, 0, 0, 0, 0, 0, 0, 0, -200, 0, -100, 0, -100, 0, 0, 100,
      0, 100, 0, 200, 0, 0, 0, 0, 0, 0, 0, 0, 0, 0, 0, 0, 0, -200, 0, -100,
      0, -100, 0, 0, 100, 0, 100, 0, 200, 0, 0, 0, 0, 0, 0, 0>>

\* String(1 - p / 100) - (100 - p) / 100, in units of 10^-18, for p = 0..100.
MinusErr ==
    <<0, 0, 0, 0, 0, 0, 0, -100, 0, 0, 0, 0, 0, 0, 0, 0, 0, 0, 100, 0, 0, 0,
      0, 0, 0, 0, 0, 0, 0, 0, 0, 0, -100, -100, -100, 0, 0, 0, 0, 0, 0, 100,
      100, 100, 0, 0, 0, 0, 0, 0, 0, 0, 0, 0, -40, -40, -50, 50, 40, 30, 0,
      0, 0, 0, 0, 0, -30, -40, -50, 50, 40, 40, 0, 0, 0, 0, 0, -20, -30,
      -40, -40, -50, 50, 40, 30, 20, 0, 0, 0, -10, -20, -30, -40, -50, 50,
      44, 36, 27, 18, 9, 0>>

\* The JavaScript number 1 + slippage / 100 as BigNumber reads it (through
\* String): h / 100 + e * 10^-18.  A slippage of tiny * 10^-17 percent adds
\* tiny * 10^-19 to 1, which is below half the spacing of the doubles there
\* and is rounded away.
OnePlusSlippage(s) ==
    IF s.tiny = 0
    THEN [h |-> 100 + s.pct, e |-> PlusErr[s.pct + 1]]
    ELSE IF s.tiny <= HalfUlpAbove1
         THEN [h |-> 100, e |-> 0]
         ELSE [h |-> 100, e |-> 200]

\* The JavaScript number 1 - slippage / 100, likewise.
OneMinusSlippage(s) ==
    IF s.tiny = 0
    THEN [h |-> 100 - s.pct, e |-> MinusErr[s.pct + 1]]
    ELSE IF s.tiny <= HalfUlpBelow1
         THEN [h |-> 100, e |-> 0]
         ELSE [h |-> 100, e |-> -100]

\* BigNumber.times is exact: best * (h / 100 + e * 10^-18).
Times(best, f) == [c |-> best * f.h, e |-> best * f.e]
PriceLess(a, b) == a.c < b.c \/ (a.c = b.c /\ a.e < b.e)

\* The execution price of lines 613-631, given the best price of the side of
\* the book the order takes.
ExecutionPrice(isBuy, best, slippage) ==
    IF isBuy
    THEN Times(best, OnePlusSlippage(slippage))
    ELSE Times(best, OneMinusSlippage(slippage))

---------------------------------------------------------------------------
(* Bounds and input sets                                                   *)

NumRequests == 2
MaxAmount == 2
MaxMarkets == 2
MaxDenomLen == 3

Requests == 1..NumRequests

Throw == [kind |-> "throw"]
\* null or undefined, or a value of none of the shapes the code probes for
Null == [kind |-> "null"]
\* a null element of a list
NullEntry == [kind |-> "nullEntry"]

Token(d, n) == [denom |-> d, decimals |-> n]
\* an asset record without decimals, one that carries them as "decimal", and
\* an asset given as its bare denomination
TokenWithout(d) == [denom |-> d]
TokenDecimal(d, n) == [denom |-> d, decimal |-> n]
BareToken(d) == [kind |-> "string", denom |-> d]
Market(id, b, q) == [kind |-> "market", marketId |-> id, baseToken |-> b, quoteToken |-> q]
M1 == Market("m1", Token(inj, 18), Token(usdt, 6))
M2 == Market("m2", Token(atom, 6), Token(usdt, 6))
M3 == Market("m3", Token(inj, 18), Token(usdt, 6))
M4 == Market("m4", Token(usdt, 6), Token(inj, 18))
M5 == Market("m5", Token(inj, 0), TokenWithout(usdt))

SeqsUpTo(S, n) == UNION {[1..k -> S] : k \in 0..n}

\* what indexerGrpcSpotApi.fetchMarkets() may give
MarketResponses(u) ==
    IF u = "wide"
    THEN {Throw, Null}
           \cup {[kind |-> "array", list |-> l] : l \in SeqsUpTo({M1, M2, M3, M4, M5, NullEntry}, MaxMarkets)}
           \cup {[kind |-> k, list |-> <<M1>>] : k \in {"markets", "data"}}
    ELSE {Throw, [kind |-> "array", list |-> <<M2, M1>>], [kind |-> "array", list |-> <<M3>>],
          [kind |-> "array", list |-> <<NullEntry>>]}

Order(p) == [kind |-> "order", price |-> p]
Side(l) == [kind |-> "array", items |-> l]
\* what indexerGrpcSpotApi.fetchOrderbook(marketId) may give; bids are in
\* descending and asks in ascending order of price; a side may be missing
BookResponses(u) ==
    IF u = "wide"
    THEN {Throw, Null}
           \cup {[kind |-> "book", buys |-> b, sells |-> s] :
                   b \in {Null, Side(<<>>), Side(<<Order(4), Order(3)>>)},
                   s \in {Side(<<>>), Side(<<Order(5), Order(6)>>), Side(<<NullEntry>>)}}
    ELSE {Throw,
          [kind |-> "book", buys |-> Side(<<Order(4)>>), sells |-> Side(<<Order(5)>>)],
          [kind |-> "book", buys |-> Side(<<Order(2)>>), sells |-> Side(<<>>)]}

TxResponse(h) == [kind |-> "tx", txHash |-> h]
\* what msgBroadcaster.broadcast() may give
BroadcastResponses(u) ==
    IF u = "wide" THEN {Throw, Null, TxResponse("tx1"), TxResponse("tx2")}
    ELSE {Throw, Null, TxResponse("tx1"), TxResponse("tx2")}

\* the dynamic imports and the check of the SDK's components
Sdk(k) == [kind |-> k]
SdkOutcomes(u) == IF u = "wide" THEN {Sdk("ok"), Sdk("missing"), Sdk("importFails")} ELSE {Sdk("ok")}

\* whether MsgCreateSpotMarketOrder builds the message or throws
Built(k) == [kind |-> k]
MessageOutcomes(u) == IF u = "wide" THEN {Built("ok"), Built("throws")} ELSE {Built("ok")}

\* Math.random() * 10 + 1
Mock(p) == [kind |-> "mock", price |-> p]
MockDraws(u) == IF u = "wide" THEN {Mock(1), Mock(10)} ELSE {Mock(7)}

Slippages ==
    {Slip(p, 0) : p \in {-1, 0, 1, 7, 14, 100, 101}} \cup {Slip(0, t) : t \in 1..MaxTiny}

SwapArgs(f, t, a, s) ==
    [kind |-> "args", fromDenom |-> f, toDenom |-> t, amount |-> a, slippage |-> s]

WideArgs ==
    {SwapArgs(f, t, a, s) : f \in {inj, INJ, usdt}, t \in {inj, INJ, usdt},
                            a \in -1..MaxAmount, s \in Slippages \cup {None}}

NarrowArgs ==
    {SwapArgs(inj, usdt, 1, Slip(1, 0)), SwapArgs(usdt, INJ, 2, Slip(14, 0))}

---------------------------------------------------------------------------
(* State                                                                   *)

VARIABLES
    universe,    \* which input sets the environment draws from
    walletFile,  \* the wallet file: None, or the stored wallet
    args,        \* per request: the arguments of the tool call, None without a call
    pc,          \* per request: where the handler is
    local,       \* per request: swapToken's local variables
    heard,       \* per request: what the environment answered, stage by stage
    calls,       \* per request: how often each remote call was made
    result,      \* per request: what swapToken returned, None before and on a throw
    response,    \* per request: the handler's response, None before
    fnCase,      \* the input of a pure-function run
    fnOut        \* the outputs of a pure-function run, in order

swapVars == <<universe, walletFile, args, pc, local, heard, calls, result, response>>
fnVars == <<fnCase, fnOut>>
vars == <<universe, walletFile, args, pc, local, heard, calls, result, response, fnCase, fnOut>>

NoLocals ==
    [market |-> None, isBuy |-> FALSE, buys |-> <<>>, sells |-> <<>>,
     price |-> None, quantity |-> None, msgParams |-> None]
NoHeard ==
    [sdk |-> None, wallet |-> None, markets |-> None, book |-> None,
     message |-> None, tx |-> None, mock |-> None]
NoCalls ==
    [walletReads |-> 0, walletWrites |-> 0, markets |-> 0, book |-> 0, broadcast |-> 0,
     balance |-> 0]

Wallet == [kind |-> "wallet", address |-> "inj1a", mnemonic |-> "words"]

---------------------------------------------------------------------------
(* The handler's validation and rendering                                  *)

\* a schema with amount: z.number().nonnegative()
ValidArgsNonnegative(a) ==
    /\ Len(a.fromDenom) >= 1
    /\ Len(a.toDenom) >= 1
    /\ a.amount >= 0
    /\ a.slippage # None =>
         /\ ~SlipLess(a.slippage, Slip(0, 0))
         /\ ~SlipLess(Slip(100, 0), a.slippage)

\* SwapTokenSchema.parse: whether the arguments pass
ValidArgs(a) ==
    /\ Len(a.fromDenom) >= 1
    /\ Len(a.toDenom) >= 1
    /\ a.amount > 0
    /\ a.slippage # None =>
         /\ ~SlipLess(a.slippage, Slip(0, 0))
         /\ ~SlipLess(Slip(100, 0), a.slippage)

\* the parsed slippage: .default(1)
ParsedSlippage(a) == IF a.slippage = None THEN Slip(1, 0) ELSE a.slippage

\* the slippage the handler passes on: slippage ? parseFloat(slippage.toString()) : 1.
\* Printing a finite number and parsing it back gives the number.
PassedSlippage(a) ==
    IF ParsedSlippage(a) = Slip(0, 0) THEN Slip(1, 0) ELSE ParsedSlippage(a)

Return(res) == [kind |-> "return", result |-> res]
Thrown == [kind |-> "thrown"]

\* the message of a swap result rendered the other way round
RenderSwapSwapped(res) ==
    IF ~res.isSimulated
    THEN [label |-> "SIMULATED SWAP ONLY", details |-> None]
    ELSE [label |-> "Successfully swapped",
          details |-> [marketId |-> res.marketId, orderSide |-> res.orderSide,
                       txHash |-> res.txHash]]

\* the message of a swap result
RenderSwap(res) ==
    IF res.isSimulated
    THEN [label |-> "SIMULATED SWAP ONLY", details |-> None]
    ELSE [label |-> "Successfully swapped",
          details |-> [marketId |-> res.marketId, orderSide |-> res.orderSide,
                       txHash |-> res.txHash]]

InvalidArguments ==
    [kind |-> "response", isError |-> TRUE,
     text |-> [label |-> "Invalid arguments", details |-> None]]

\* the handler after swapToken has returned or thrown
HandlerResponse(outcome) ==
    IF outcome.kind = "thrown"
    THEN [kind |-> "response", isError |-> TRUE,
          text |-> [label |-> "Error", details |-> None]]
    ELSE [kind |-> "response", isError |-> FALSE, text |-> RenderSwap(outcome.result)]

---------------------------------------------------------------------------
(* BigNumber arithmetic                                                    *)
(*                                                                         *)
(* A natural number is the sequence of its limbs, the digits of its        *)
(* notation to the base 10^4, lowest first, without leading zeros (zero is *)
(* the empty sequence).  A BigNumber is coef * 10^exp.                     *)

\* BigNumber's DECIMAL_PLACES (its default), the places div rounds to, half up
DecimalPlaces == 20

Base == 10000

RECURSIVE Limbs(_)
Limbs(n) == IF n = 0 THEN <<>> ELSE <<n % Base>> \o Limbs(n \div Base)

RECURSIVE Trim(_)
Trim(d) ==
    IF d = <<>> THEN <<>>
    ELSE IF d[Len(d)] = 0 THEN Trim(SubSeq(d, 1, Len(d) - 1))
    ELSE d

LimbAt(d, i) == IF i <= Len(d) THEN d[i] ELSE 0

RECURSIVE AddFrom(_, _, _, _)
AddFrom(a, b, i, carry) ==
    IF i > Len(a) /\ i > Len(b) THEN Limbs(carry)
    ELSE LET x == LimbAt(a, i) + LimbAt(b, i) + carry
         IN  <<x % Base>> \o AddFrom(a, b, i + 1, x \div Base)

Add(a, b) == AddFrom(a, b, 1, 0)

\* -1, 0 or 1 as a is below, equal to or above b, from limb i downwards
RECURSIVE CompareFrom(_, _, _)
CompareFrom(a, b, i) ==
    IF i = 0 THEN 0
    ELSE IF a[i] < b[i] THEN -1
    ELSE IF a[i] > b[i] THEN 1
    ELSE CompareFrom(a, b, i - 1)

Compare(a, b) ==
    IF Len(a) < Len(b) THEN -1
    ELSE IF Len(a) > Len(b) THEN 1
    ELSE CompareFrom(a, b, Len(a))

\* a - b for a >= b
RECURSIVE SubFrom(_, _, _, _)
SubFrom(a, b, i, borrow) ==
    IF i > Len(a) THEN <<>>
    ELSE LET x == a[i] - LimbAt(b, i) - borrow
         IN  <<IF x < 0 THEN x + Base ELSE x>>
               \o SubFrom(a, b, i + 1, IF x < 0 THEN 1 ELSE 0)

Sub(a, b) == Trim(SubFrom(a, b, 1, 0))

\* a * m for a natural number m <= 10 * Base
RECURSIVE MulSmallFrom(_, _, _, _)
MulSmallFrom(a, m, i, carry) ==
    IF i > Len(a) THEN Limbs(carry)
    ELSE LET x == a[i] * m + carry
         IN  <<x % Base>> \o MulSmallFrom(a, m, i + 1, x \div Base)

MulSmall(a, m) == IF m = 0 THEN <<>> ELSE MulSmallFrom(a, m, 1, 0)

\* a * 10^k
Shift(a, k) ==
    IF a = <<>> THEN <<>>
    ELSE [i \in 1..(k \div 4) |-> 0]
           \o MulSmall(a, CASE k % 4 = 0 -> 1 [] k % 4 = 1 -> 10
                            [] k % 4 = 2 -> 100 [] OTHER -> 1000)

\* a * b
RECURSIVE ProductFrom(_, _, _)
ProductFrom(a, b, i) ==
    IF i > Len(b) THEN <<>>
    ELSE Add(MulSmall(a, b[i]), Shift(ProductFrom(a, b, i + 1), 4))
Product(a, b) == ProductFrom(a, b, 1)

\* a \div m for a natural number 0 < m < Base, from limb i downwards
RECURSIVE DivSmallFrom(_, _, _, _)
DivSmallFrom(a, m, i, carry) ==
    IF i = 0 THEN <<>>
    ELSE LET x == carry * Base + a[i]
         IN  DivSmallFrom(a, m, i - 1, x % m) \o <<x \div m>>

DivSmall(a, m) == Trim(DivSmallFrom(a, m, Len(a), 0))

\* the limb that d goes into rem < Base * d, and what is left, for a d whose
\* highest limb is at least Base \div 2: the quotient of the two highest limbs
\* of rem by the highest of d is the limb, or above it by at most 2
DivideLimb(rem, d) ==
    LET top == LimbAt(rem, Len(d) + 1) * Base + LimbAt(rem, Len(d))
        guess == IF top \div d[Len(d)] < Base THEN top \div d[Len(d)] ELSE Base - 1
        limb == IF Compare(MulSmall(d, guess), rem) <= 0 THEN guess
                ELSE IF Compare(MulSmall(d, guess - 1), rem) <= 0 THEN guess - 1
                ELSE guess - 2
    IN  [limb |-> limb, rem |-> Sub(rem, MulSmall(d, limb))]

\* long division of n by d, from limb i of n downwards (the second test of
\* the condition is never true: it has rem and quot computed at each step)
RECURSIVE DivFrom(_, _, _, _, _)
DivFrom(n, d, i, rem, quot) ==
    IF i = 0 \/ Len(rem) + Len(quot) < 0 THEN [quot |-> Trim(quot), rem |-> rem]
    ELSE LET step == DivideLimb(Trim(<<n[i]>> \o rem), d)
         IN  DivFrom(n, d, i - 1, step.rem, <<step.limb>> \o quot)

\* the quotient and the remainder of n by d > 0; both are first scaled so
\* that the highest limb of the divisor is at least Base \div 2
LongDivision(n, d) ==
    LET scale == Base \div (d[Len(d)] + 1)
        run == DivFrom(MulSmall(n, scale), MulSmall(d, scale), Len(MulSmall(n, scale)),
                       <<>>, <<>>)
    IN  [quot |-> run.quot, rem |-> DivSmall(run.rem, scale)]

BigNumber(coef, exp) == [coef |-> coef, exp |-> exp]

\* new BigNumberInBase(n) for a whole number n
BigNumberOf(n) == BigNumber(Limbs(n), 0)

\* 10 ** n as BigNumber reads it: the double nearest to 10^n prints as 1e<n>
PowerOfTen(n) == BigNumber(Limbs(1), n)

\* the price c / 100 + e * 10^-18 as a BigNumber
PriceValue(price) ==
    LET hundredths == Shift(Limbs(price.c), 16)
    IN  BigNumber(IF price.e >= 0 THEN Add(hundredths, Limbs(price.e))
                  ELSE Sub(hundredths, Limbs(-price.e)),
                  -18)

\* x.times(y) for y a power of ten: exact
timesPowerOfTen(x, y) == BigNumber(x.coef, x.exp + y.exp)

\* x.times(y): exact
times(x, y) == BigNumber(Product(x.coef, y.coef), x.exp + y.exp)

\* x.div(y) for y > 0: the quotient rounded to DecimalPlaces places, half up
div(x, y) ==
    LET places == x.exp - y.exp + DecimalPlaces
        n == IF places >= 0 THEN Shift(x.coef, places) ELSE x.coef
        d == IF places >= 0 THEN y.coef ELSE Shift(y.coef, -places)
        whole == LongDivision(n, d)
    IN  BigNumber(IF Compare(MulSmall(whole.rem, 2), d) >= 0
                  THEN Add(whole.quot, Limbs(1)) ELSE whole.quot,
                  -DecimalPlaces)

\* the significant bits of a double
MantissaBits == 53

\* a * 2^k
RECURSIVE TimesTwoTo(_, _)
TimesTwoTo(a, k) ==
    IF k = 0 THEN a
    ELSE IF k >= 13 THEN TimesTwoTo(MulSmall(a, 8192), k - 13)
    ELSE TimesTwoTo(MulSmall(a, 2), k - 1)

\* a double: mant * 2^exp with 2^52 <= mant < 2^53, or zero
Double(mant, exp) == [kind |-> "double", mant |-> mant, exp |-> exp]

\* n / h * 2^(MantissaBits + e), rewritten so that 1/2 <= n / h < 1
RECURSIVE Normalize(_, _, _)
Normalize(n, h, e) ==
    IF Compare(MulSmall(n, 8192), h) < 0 THEN Normalize(MulSmall(n, 8192), h, e - 13)
    ELSE IF Compare(MulSmall(n, 2), h) < 0 THEN Normalize(MulSmall(n, 2), h, e - 1)
    ELSE IF Compare(n, MulSmall(h, 8192)) >= 0 THEN Normalize(n, MulSmall(h, 8192), e + 13)
    ELSE IF Compare(n, h) >= 0 THEN Normalize(n, MulSmall(h, 2), e + 1)
    ELSE [n |-> n, h |-> h, exp |-> e]

\* x.toNumber(): the double nearest to x, a tie going to the even mantissa
toNumber(x) ==
    IF x.coef = <<>> THEN Double(<<>>, 0)
    ELSE LET norm == Normalize(IF x.exp >= 0 THEN Shift(x.coef, x.exp) ELSE x.coef,
                               IF x.exp >= 0 THEN Limbs(1) ELSE Shift(Limbs(1), -x.exp),
                               -MantissaBits)
             whole == LongDivision(TimesTwoTo(norm.n, MantissaBits), norm.h)
             twice == Compare(MulSmall(whole.rem, 2), norm.h)
             mant == IF twice > 0 \/ (twice = 0 /\ LimbAt(whole.quot, 1) % 2 = 1)
                     THEN Add(whole.quot, Limbs(1)) ELSE whole.quot
         IN  IF mant = TimesTwoTo(Limbs(1), MantissaBits)
             THEN Double(TimesTwoTo(Limbs(1), MantissaBits - 1), norm.exp + 1)
             ELSE Double(mant, norm.exp)

---------------------------------------------------------------------------
(* swapToken, stage by stage                                               *)

\* a simulated result that claims to be real
simulateSwapUnflagged(fromDenom, toDenom, amount, slippage, mock) ==
    [kind |-> "result", fromDenom |-> fromDenom, toDenom |-> toDenom,
     inputAmount |-> amount,
     executionPrice |-> [price |-> [c |-> 100 * mock.price, e |-> 0], shift |-> 0],
     txHash |-> "0xmock", marketId |-> "mock-market-id", orderSide |-> "buy",
     isSimulated |-> FALSE]

simulateSwap(fromDenom, toDenom, amount, slippage, mock) ==
    [kind |-> "result", fromDenom |-> fromDenom, toDenom |-> toDenom,
     inputAmount |-> amount,
     executionPrice |-> [price |-> [c |-> 100 * mock.price, e |-> 0], shift |-> 0],
     txHash |-> "0xmock", marketId |-> "mock-market-id", orderSide |-> "buy",
     isSimulated |-> TRUE]

\* an early return that hands on simulateSwap's values as a real result
SimulatedAsReal(a, mock) ==
    Return([simulateSwap(a.fromDenom, a.toDenom, a.amount, PassedSlippage(a), mock)
               EXCEPT !.isSimulated = FALSE])

\* an early "return simulateSwap(...)"
Simulated(a, mock) ==
    Return(simulateSwap(a.fromDenom, a.toDenom, a.amount, PassedSlippage(a), mock))

\* an outer handler that logs and throws again, as deployToken's does
OuterCatchRethrowing(a, mock) == Thrown

\* the outer catch: whatever is thrown inside swapToken ends in simulateSwap
OuterCatch(a, mock) ==
    Return(simulateSwap(a.fromDenom, a.toDenom, a.amount, PassedSlippage(a), mock))

End(outcome) == [kind |-> "end", outcome |-> outcome]

\* the imports, the check of the SDK's components, and the wallet
StartStage(a, sdk, wallet, mock) ==
    IF sdk.kind = "importFails" THEN End(OuterCatch(a, mock))
    ELSE IF sdk.kind = "missing" THEN End(Simulated(a, mock))
    ELSE IF wallet = None THEN End(OuterCatch(a, mock))
    ELSE [kind |-> "go"]

\* the list of markets in the response, or the empty list
ExtractMarkets(resp) ==
    IF resp.kind \in {"array", "markets", "data"} THEN resp.list ELSE <<>>

DenomOf(token) == token.denom

MarketMatches(m, normalizedFrom, normalizedTo) ==
    \/ DenomOf(m.baseToken) = normalizedFrom /\ DenomOf(m.quoteToken) = normalizedTo
    \/ DenomOf(m.baseToken) = normalizedTo /\ DenomOf(m.quoteToken) = normalizedFrom

RECURSIVE ScanMarkets(_, _, _, _)
ScanMarkets(list, i, normalizedFrom, normalizedTo) ==
    IF i > Len(list) THEN None
    ELSE IF list[i] = NullEntry THEN Throw
    ELSE IF MarketMatches(list[i], normalizedFrom, normalizedTo) THEN list[i]
    ELSE ScanMarkets(list, i + 1, normalizedFrom, normalizedTo)

\* a scan that takes the first market of the list whatever it pairs
FindMarketAny(list, fromDenom, toDenom) ==
    IF list[1] = NullEntry THEN Throw ELSE list[1]

\* a scan without the break: the last match of the list stays in "market"
FindMarketLast(list, fromDenom, toDenom) ==
    LET hits == {k \in 1..Len(list) :
                   /\ list[k] # NullEntry
                   /\ MarketMatches(list[k], normalizeDenom(fromDenom),
                                    normalizeDenom(toDenom))}
    IN  IF \E k \in 1..Len(list) : list[k] = NullEntry THEN Throw
        ELSE IF hits = {} THEN None
        ELSE list[CHOOSE k \in hits : \A j \in hits : j <= k]

\* the loop over spotMarkets: the first match, None without one, Throw on
\* reading a field of a null element
FindMarket(list, fromDenom, toDenom) ==
    ScanMarkets(list, 1, normalizeDenom(fromDenom), normalizeDenom(toDenom))

\* a direction taken from the destination as the caller wrote it
IsBuyUnnormalized(market, toDenom) == DenomOf(market.baseToken) = toDenom

\* const isBuy = baseDenom === normalizedToDenom
IsBuy(market, toDenom) == DenomOf(market.baseToken) = normalizeDenom(toDenom)

\* const orderSide = isBuy ? SpotOrderSide.Buy : SpotOrderSide.Sell
SpotOrderSide(isBuy) == IF isBuy THEN "SpotOrderSide.Buy" ELSE "SpotOrderSide.Sell"

\* the response of fetchMarkets up to the call of fetchOrderbook
MarketsStage(a, resp, mock) ==
    IF resp = Throw THEN End(Simulated(a, mock))
    ELSE IF Len(ExtractMarkets(resp)) = 0 THEN End(Simulated(a, mock))
    ELSE LET found == FindMarket(ExtractMarkets(resp), a.fromDenom, a.toDenom)
         IN  IF found = Throw THEN End(OuterCatch(a, mock))
             ELSE IF found = None THEN End(Simulated(a, mock))
             ELSE [kind |-> "go", market |-> found,
                   isBuy |-> IsBuy(found, a.toDenom)]

\* buys / sells of the response, or the empty list
ExtractSide(resp, side) ==
    IF resp.kind # "book" THEN <<>>
    ELSE IF side = "buys"
         THEN (IF resp.buys.kind = "array" THEN resp.buys.items ELSE <<>>)
         ELSE (IF resp.sells.kind = "array" THEN resp.sells.items ELSE <<>>)

\* a BUY quantity scaled by quote minus base precision
QuantityScaledBack(isBuy, amount, price, baseDecimals, quoteDecimals) ==
    IF isBuy
    THEN [num |-> amount, numExp |-> quoteDecimals, div |-> price,
          mulExp |-> quoteDecimals - baseDecimals]
    ELSE [num |-> amount, numExp |-> baseDecimals, div |-> None, mulExp |-> 0]

\* a SELL quantity scaled by the quote precision
QuantitySoldInQuoteUnits(isBuy, amount, price, baseDecimals, quoteDecimals) ==
    IF isBuy
    THEN [num |-> amount, numExp |-> quoteDecimals, div |-> price,
          mulExp |-> baseDecimals - quoteDecimals]
    ELSE [num |-> amount, numExp |-> quoteDecimals, div |-> None, mulExp |-> 0]

\* the order quantity, as the operands of
\* amount * 10^numExp / div * 10^mulExp for a BUY, amount * 10^numExp for a
\* SELL
Quantity(isBuy, amount, price, baseDecimals, quoteDecimals) ==
    IF isBuy
    THEN [num |-> amount, numExp |-> quoteDecimals, div |-> price,
          mulExp |-> baseDecimals - quoteDecimals]
    ELSE [num |-> amount, numExp |-> baseDecimals, div |-> None, mulExp |-> 0]

\* the value of the order quantity: lines 652-653 for a BUY, 657 for a SELL
QuantityValue(q) ==
    IF q.div = None
    THEN timesPowerOfTen(BigNumberOf(q.num), PowerOfTen(q.numExp))
    ELSE timesPowerOfTen(div(timesPowerOfTen(BigNumberOf(q.num), PowerOfTen(q.numExp)),
                             PriceValue(q.div)),
                         PowerOfTen(q.mulExp))

\* the precision the code takes when an asset declares none
DefaultDecimals == 18

\* parseInt(typeof token === 'string' ? "18"
\*            : (token?.decimals || token.decimal || "18")):
\* a missing field and the number 0 are both falsy
Decimals(token) ==
    IF "kind" \in DOMAIN token THEN DefaultDecimals
    ELSE IF "decimals" \in DOMAIN token /\ token.decimals # 0 THEN token.decimals
    ELSE IF "decimal" \in DOMAIN token /\ token.decimal # 0 THEN token.decimal
    ELSE DefaultDecimals

\* an estimate that scales a BUY by the quote and a SELL by the base precision
EstimatedOutputAcross(isBuy, quantity, price, baseDecimals, quoteDecimals) ==
    IF isBuy THEN [quantity |-> quantity, by |-> None, divExp |-> quoteDecimals]
    ELSE [quantity |-> quantity, by |-> price, divExp |-> baseDecimals]

\* estimatedOutputAmount, as the operands of
\* (quantity / 10^divExp).toNumber() for a BUY and of
\* (quantity * by / 10^divExp).toNumber() for a SELL
EstimatedOutput(isBuy, quantity, price, baseDecimals, quoteDecimals) ==
    IF isBuy THEN [quantity |-> quantity, by |-> None, divExp |-> baseDecimals]
    ELSE [quantity |-> quantity, by |-> price, divExp |-> quoteDecimals]

\* the value of estimatedOutputAmount: lines 720 and 721
EstimatedOutputValue(est) ==
    toNumber(div(IF est.by = None THEN QuantityValue(est.quantity)
                 ELSE times(QuantityValue(est.quantity), PriceValue(est.by)),
                 PowerOfTen(est.divExp)))

\* msgParams, the content of the order message; toFixed() prints the exact
\* value of a BigNumber
MsgParams(loc, price, quantity) ==
    [kind |-> "msgParams", marketId |-> loc.market.marketId,
     orderSide |-> SpotOrderSide(loc.isBuy), price |-> price, quantity |-> quantity]

\* a pricing that gives up when either side of the book is empty
TakenSideOfFullBook(loc, resp) ==
    IF Len(ExtractSide(resp, "sells")) = 0 \/ Len(ExtractSide(resp, "buys")) = 0 THEN <<>>
    ELSE IF loc.isBuy THEN ExtractSide(resp, "sells") ELSE ExtractSide(resp, "buys")

\* the side of the book the order takes
TakenSide(loc, resp) ==
    IF loc.isBuy THEN ExtractSide(resp, "sells") ELSE ExtractSide(resp, "buys")

\* whether swapToken gets as far as building the order message
MessageReached(loc, resp) ==
    /\ resp # Throw
    /\ Len(TakenSide(loc, resp)) > 0
    /\ TakenSide(loc, resp)[1] # NullEntry

\* a book stage that broadcasts whether or not the order message was built
BookStageUnbuilt(a, loc, resp, built, mock) ==
    IF resp = Throw THEN End(Simulated(a, mock))
    ELSE LET buys == ExtractSide(resp, "buys")
             sells == ExtractSide(resp, "sells")
             taken == TakenSide(loc, resp)
         IN  IF Len(taken) = 0 THEN End(Simulated(a, mock))
             ELSE IF taken[1] = NullEntry THEN End(OuterCatch(a, mock))
             ELSE LET price == ExecutionPrice(loc.isBuy, taken[1].price, PassedSlippage(a))
                      quantity == Quantity(loc.isBuy, a.amount, price,
                                           Decimals(loc.market.baseToken),
                                           Decimals(loc.market.quoteToken))
                  IN  [kind |-> "go", buys |-> buys, sells |-> sells, price |-> price,
                       quantity |-> quantity,
                       msgParams |-> MsgParams(loc, price, quantity)]

\* the response of fetchOrderbook up to the call of broadcast
BookStage(a, loc, resp, built, mock) ==
    IF resp = Throw THEN End(Simulated(a, mock))
    ELSE LET buys == ExtractSide(resp, "buys")
             sells == ExtractSide(resp, "sells")
             taken == TakenSide(loc, resp)
         IN  IF Len(taken) = 0 THEN End(Simulated(a, mock))
             ELSE IF taken[1] = NullEntry THEN End(OuterCatch(a, mock))
             ELSE IF built.kind = "throws" THEN End(Simulated(a, mock))
             ELSE LET price == ExecutionPrice(loc.isBuy, taken[1].price, PassedSlippage(a))
                      quantity == Quantity(loc.isBuy, a.amount, price,
                                           Decimals(loc.market.baseToken),
                                           Decimals(loc.market.quoteToken))
                  IN  [kind |-> "go", buys |-> buys, sells |-> sells, price |-> price,
                       quantity |-> quantity,
                       msgParams |-> MsgParams(loc, price, quantity)]

\* the result of a swap that was broadcast
RealResult(a, loc, txHash) ==
    [kind |-> "result", fromDenom |-> a.fromDenom, toDenom |-> a.toDenom,
     inputAmount |-> a.amount,
     estimatedOutputAmount |->
         EstimatedOutput(loc.isBuy, loc.quantity, loc.price,
                         Decimals(loc.market.baseToken), Decimals(loc.market.quoteToken)),
     executionPrice |->
         [price |-> loc.price,
          shift |-> Decimals(loc.market.quoteToken) - Decimals(loc.market.baseToken)],
     txHash |-> txHash, marketId |-> loc.market.marketId,
     orderSide |-> IF loc.isBuy THEN "buy" ELSE "sell",
     isSimulated |-> FALSE]

\* the response of broadcast up to the return; reading txHash of null throws
BroadcastStage(a, loc, resp, mock) ==
    IF resp = Throw THEN Simulated(a, mock)
    ELSE IF resp = Null THEN OuterCatch(a, mock)
    ELSE Return(RealResult(a, loc, resp.txHash))

---------------------------------------------------------------------------
(* The handler's steps; a step runs from one suspension point to the next  *)

\* a local variable kept at module level: one slot for every request
StoreShared(f, r, v) == [q \in DOMAIN f |-> v]

\* swapToken's variables are locals of the call: one slot per request
Store(f, r, v) == [f EXCEPT ![r] = v]

\* swapToken returns or throws and the handler answers
Finish(r, outcome, h) ==
    /\ pc' = [pc EXCEPT ![r] = "done"]
    /\ result' = [result EXCEPT ![r] =
                     IF outcome.kind = "return" THEN outcome.result ELSE None]
    /\ response' = [response EXCEPT ![r] = HandlerResponse(outcome)]
    /\ heard' = [heard EXCEPT ![r] =
                    IF outcome.kind = "return" /\ outcome.result.isSimulated
                    THEN h ELSE [h EXCEPT !.mock = None]]

\* the swap-token branch up to the call of swapToken
CallTool(r) ==
    /\ pc[r] = "idle"
    /\ args[r] # None
    /\ args[r].kind = "args"
    /\ IF ValidArgs(args[r])
       THEN /\ pc' = [pc EXCEPT ![r] = "start"]
            /\ UNCHANGED response
       ELSE /\ pc' = [pc EXCEPT ![r] = "done"]
            /\ response' = [response EXCEPT ![r] = InvalidArguments]
    /\ UNCHANGED <<universe, walletFile, args, local, heard, calls, result>>
    /\ UNCHANGED fnVars

\* swapToken from its start to the call of fetchMarkets
SwapStart(r) ==
    /\ pc[r] = "start"
    /\ \E sdk \in SdkOutcomes(universe), mock \in MockDraws(universe) :
         LET step == StartStage(args[r], sdk, walletFile, mock)
             h == [heard[r] EXCEPT !.sdk = sdk,
                                   !.wallet = IF sdk.kind = "ok" THEN walletFile ELSE None,
                                   !.mock = mock]
             read == IF sdk.kind = "ok" THEN 1 ELSE 0
         IN  IF step.kind = "end"
             THEN /\ Finish(r, step.outcome, h)
                  /\ calls' = [calls EXCEPT ![r].walletReads = @ + read]
             ELSE /\ pc' = [pc EXCEPT ![r] = "awaitMarkets"]
                  /\ heard' = [heard EXCEPT ![r] = [h EXCEPT !.mock = None]]
                  /\ calls' = [calls EXCEPT ![r].walletReads = @ + read,
                                            ![r].markets = @ + 1]
                  /\ UNCHANGED <<result, response>>
    /\ UNCHANGED <<universe, walletFile, args, local>>
    /\ UNCHANGED fnVars

\* fetchMarkets answers; swapToken runs to the call of fetchOrderbook
MarketsReturn(r) ==
    /\ pc[r] = "awaitMarkets"
    /\ \E resp \in MarketResponses(universe), mock \in MockDraws(universe) :
         LET step == MarketsStage(args[r], resp, mock)
             h == [heard[r] EXCEPT !.markets = resp, !.mock = mock]
         IN  IF step.kind = "end"
             THEN /\ Finish(r, step.outcome, h)
                  /\ UNCHANGED <<local, calls>>
             ELSE /\ pc' = [pc EXCEPT ![r] = "awaitBook"]
                  /\ heard' = [heard EXCEPT ![r] = [h EXCEPT !.mock = None]]
                  /\ local' = Store(local, r, [local[r] EXCEPT !.market = step.market,
                                                               !.isBuy = step.isBuy])
                  /\ calls' = [calls EXCEPT ![r].book = @ + 1]
                  /\ UNCHANGED <<result, response>>
    /\ UNCHANGED <<universe, walletFile, args>>
    /\ UNCHANGED fnVars

\* fetchOrderbook answers; swapToken runs to the call of broadcast
BookReturn(r) ==
    /\ pc[r] = "awaitBook"
    /\ \E resp \in BookResponses(universe), built \in MessageOutcomes(universe),
          mock \in MockDraws(universe) :
         LET step == BookStage(args[r], local[r], resp, built, mock)
             reached == MessageReached(local[r], resp)
             h == [heard[r] EXCEPT !.book = resp,
                                   !.message = IF reached THEN built ELSE None,
                                   !.mock = mock]
         IN  IF step.kind = "end"
             THEN /\ Finish(r, step.outcome, h)
                  /\ UNCHANGED <<local, calls>>
             ELSE /\ pc' = [pc EXCEPT ![r] = "awaitBroadcast"]
                  /\ heard' = [heard EXCEPT ![r] = [h EXCEPT !.mock = None]]
                  /\ local' = Store(local, r, [local[r] EXCEPT !.buys = step.buys,
                                                               !.sells = step.sells,
                                                               !.price = step.price,
                                                               !.quantity = step.quantity,
                                                               !.msgParams = step.msgParams])
                  /\ calls' = [calls EXCEPT ![r].broadcast = @ + 1]
                  /\ UNCHANGED <<result, response>>
    /\ UNCHANGED <<universe, walletFile, args>>
    /\ UNCHANGED fnVars

\* broadcast answers; swapToken returns and the handler answers
BroadcastReturn(r) ==
    /\ pc[r] = "awaitBroadcast"
    /\ \E resp \in BroadcastResponses(universe), mock \in MockDraws(universe) :
         Finish(r, BroadcastStage(args[r], local[r], resp, mock),
                [heard[r] EXCEPT !.tx = resp, !.mock = mock])
    /\ UNCHANGED <<universe, walletFile, args, local, calls>>
    /\ UNCHANGED fnVars

---------------------------------------------------------------------------
(* create-wallet; a step runs from one suspension point to the next        *)

CreateWalletArgs == [kind |-> "createWallet"]

\* PrivateKey.generate() in call r: a fresh key, different in every call
Generated(r) ==
    [kind |-> "wallet", address |-> "inj1g" \o ToString(r),
     mnemonic |-> "words" \o ToString(r)]

\* what fs.readFile of the wallet file may give: its content, or a failure
ReadOutcomes(file) == {file, Throw}
\* fs.mkdir and fs.writeFile
FsOutcomes == {[kind |-> "ok"], Throw}

NoWalletLocals == [walletExists |-> FALSE, generated |-> None]

WalletResult(address, isNew) ==
    [kind |-> "walletResult", address |-> address, isNew |-> isNew]

\* the message of a create-wallet result
RenderWallet(res) ==
    [label |-> IF res.isNew THEN "successfully created" ELSE "You already have",
     details |-> [address |-> res.address]]

\* the handler after createWallet has returned or thrown
WalletResponse(outcome) ==
    IF outcome.kind = "thrown"
    THEN [kind |-> "response", isError |-> TRUE,
          text |-> [label |-> "Error", details |-> None]]
    ELSE [kind |-> "response", isError |-> FALSE, text |-> RenderWallet(outcome.result)]

\* createWallet returns or throws and the handler answers
FinishWallet(r, outcome) ==
    /\ pc' = [pc EXCEPT ![r] = "done"]
    /\ result' = [result EXCEPT ![r] =
                     IF outcome.kind = "return" THEN outcome.result ELSE None]
    /\ response' = [response EXCEPT ![r] = WalletResponse(outcome)]

\* a createWallet that generates and saves whatever checkWalletExists found
AfterCheckAlwaysNew(walletExists) == "save"

\* if (walletExists): load the stored wallet, otherwise generate and save
AfterCheck(walletExists) == IF walletExists THEN "load" ELSE "save"

\* the create-wallet branch up to the dynamic import in createWallet
CreateWalletCall(r) ==
    /\ pc[r] = "idle"
    /\ args[r] = CreateWalletArgs
    /\ pc' = [pc EXCEPT ![r] = "awaitImport"]
    /\ local' = Store(local, r, NoWalletLocals)
    /\ UNCHANGED <<universe, walletFile, args, heard, calls, result, response>>
    /\ UNCHANGED fnVars

\* the import answers; createWallet runs to fs.access in checkWalletExists
ImportReturn(r) ==
    /\ pc[r] = "awaitImport"
    /\ \E sdk \in {Sdk("ok"), Sdk("importFails")} :
         /\ heard' = [heard EXCEPT ![r].sdk = sdk]
         /\ IF sdk.kind = "importFails"
            THEN FinishWallet(r, Thrown)
            ELSE /\ pc' = [pc EXCEPT ![r] = "awaitAccess"]
                 /\ UNCHANGED <<result, response>>
    /\ UNCHANGED <<universe, walletFile, args, local, calls>>
    /\ UNCHANGED fnVars

\* fs.access answers; createWallet runs to fs.readFile in loadWallet, or
\* generates a key and runs to fs.mkdir in saveWallet
AccessReturn(r) ==
    /\ pc[r] = "awaitAccess"
    /\ LET walletExists == walletFile # None
       IN  IF AfterCheck(walletExists) = "load"
           THEN /\ pc' = [pc EXCEPT ![r] = "awaitRead"]
                /\ local' = Store(local, r, [local[r] EXCEPT !.walletExists = walletExists])
                /\ calls' = [calls EXCEPT ![r].walletReads = @ + 1]
           ELSE /\ pc' = [pc EXCEPT ![r] = "awaitMkdir"]
                /\ local' = Store(local, r, [local[r] EXCEPT !.walletExists = walletExists,
                                                             !.generated = Generated(r)])
                /\ UNCHANGED calls
    /\ UNCHANGED <<universe, walletFile, args, heard, result, response>>
    /\ UNCHANGED fnVars

\* fs.readFile answers; loadWallet parses and createWallet returns
ReadReturn(r) ==
    /\ pc[r] = "awaitRead"
    /\ \E read \in ReadOutcomes(walletFile) :
         /\ heard' = [heard EXCEPT ![r].wallet = read]
         /\ IF read = Throw
            THEN FinishWallet(r, Thrown)
            ELSE FinishWallet(r, Return(WalletResult(read.address, FALSE)))
    /\ UNCHANGED <<universe, walletFile, args, local, calls>>
    /\ UNCHANGED fnVars

\* fs.mkdir answers; saveWallet runs to fs.writeFile
MkdirReturn(r) ==
    /\ pc[r] = "awaitMkdir"
    /\ \E made \in FsOutcomes :
         IF made = Throw
         THEN /\ FinishWallet(r, Thrown)
              /\ UNCHANGED calls
         ELSE /\ pc' = [pc EXCEPT ![r] = "awaitWrite"]
              /\ calls' = [calls EXCEPT ![r].walletWrites = @ + 1]
              /\ UNCHANGED <<result, response>>
    /\ UNCHANGED <<universe, walletFile, args, local, heard>>
    /\ UNCHANGED fnVars

\* fs.writeFile answers; createWallet returns the generated address
WriteReturn(r) ==
    /\ pc[r] = "awaitWrite"
    /\ \E written \in FsOutcomes :
         IF written = Throw
         THEN /\ FinishWallet(r, Thrown)
              /\ UNCHANGED walletFile
         ELSE /\ walletFile' = local[r].generated
              /\ FinishWallet(r, Return(WalletResult(local[r].generated.address, TRUE)))
    /\ UNCHANGED <<universe, args, local, heard, calls>>
    /\ UNCHANGED fnVars

---------------------------------------------------------------------------
(* transfer-token, query-balance, deploy-token and a tool the server does  *)
(* not have; a step runs from one suspension point to the next             *)

UnknownToolArgs == [kind |-> "unknown"]

\* a field that is there
Given(v) == [kind |-> "given", value |-> v]

\* the arguments of a call of one of these tools, with recipients of 41, 42,
\* 44 and 45 characters; None is a field left out
OperationArgs ==
    {[kind |-> "transfer", amount |-> a, recipient |-> to, denom |-> d] :
        a \in 0..1,
        to \in {"inj1qqqqqqqqqqqqqqqqqqqqqqqqqqqqqqqqqqqqq",
                "inj1qqqqqqqqqqqqqqqqqqqqqqqqqqqqqqqqqqqqqq",
                "inj1qqqqqqqqqqqqqqqqqqqqqqqqqqqqqqqqqqqqqqqq",
                "inj1qqqqqqqqqqqqqqqqqqqqqqqqqqqqqqqqqqqqqqqqq"},
        d \in {None, Given(usdt)}}
    \cup {[kind |-> "query", denom |-> d] : d \in {None, Given(usdt)}}
    \cup {[kind |-> "deploy", name |-> n, symbol |-> s, initialSupply |-> i, decimals |-> d] :
            n \in {"", "Coin"}, s \in {"", "CN", "ABCDEFGHIJKLM"},
            i \in 0..1, d \in {None, Given(6), Given(19)}}
    \cup {UnknownToolArgs}

\* TransferTokenSchema, QueryBalanceSchema and DeployTokenSchema: whether the
\* arguments pass
ValidOperationArgs(a) ==
    CASE a.kind = "transfer" ->
           /\ a.amount > 0
           /\ Len(a.recipient) >= 42
           /\ Len(a.recipient) <= 44
      [] a.kind = "query" -> TRUE
      [] a.kind = "deploy" ->
           /\ Len(a.name) >= 1
           /\ Len(a.symbol) >= 1
           /\ Len(a.symbol) <= 12
           /\ a.initialSupply > 0
           /\ a.decimals # None => a.decimals.value >= 0 /\ a.decimals.value <= 18

\* the parsed arguments: .default("inj") and .default(18)
ParsedOperationArgs(a) ==
    CASE a.kind = "deploy" ->
           [a EXCEPT !.decimals = IF @ = None THEN DefaultDecimals ELSE @.value]
      [] OTHER -> [a EXCEPT !.denom = IF @ = None THEN inj ELSE @.value]

ThrownWith(message) == [kind |-> "thrown", message |-> message]

WalletNotFound == "Wallet not found. Please create a wallet first."

\* what the network call of the operation may give: fetchBalance in
\* queryBalance, where an amount of None is a response without one, otherwise
\* broadcast
NetworkResponses(a) ==
    IF a.kind = "query"
    THEN {Throw, Null, [kind |-> "balance", amount |-> None],
          [kind |-> "balance", amount |-> Given(5)]}
    ELSE BroadcastResponses("narrow")

\* the operation after its network call has answered
OperationOutcome(a, wallet, resp) ==
    LET p == ParsedOperationArgs(a)
    IN  CASE resp = Throw -> ThrownWith("network")
          [] a.kind = "query" ->
               Return([kind |-> "balanceResult", address |-> wallet.address,
                       balance |-> IF resp # Null /\ resp.amount # None
                                   THEN [units |-> resp.amount.value, decimals |-> DefaultDecimals]
                                   ELSE [units |-> 0, decimals |-> 0],
                       denom |-> p.denom])
          [] resp = Null -> ThrownWith("Cannot read properties of null")
          [] a.kind = "transfer" ->
               Return([kind |-> "transferResult", transactionHash |-> resp.txHash,
                       amount |-> p.amount, denom |-> p.denom,
                       recipient |-> p.recipient, from |-> wallet.address])
          [] a.kind = "deploy" ->
               Return([kind |-> "deployResult", name |-> p.name, symbol |-> p.symbol,
                       totalSupply |-> p.initialSupply, decimals |-> p.decimals,
                       creator |-> wallet.address, txHash |-> resp.txHash])

\* the message of an operation's result
RenderOperation(res) ==
    CASE res.kind = "transferResult" ->
           [label |-> "Successfully transferred",
            details |-> [from |-> res.from, recipient |-> res.recipient,
                         txHash |-> res.transactionHash]]
      [] res.kind = "balanceResult" ->
           [label |-> "has a balance of",
            details |-> [address |-> res.address, balance |-> res.balance,
                         denom |-> res.denom]]
      [] res.kind = "deployResult" ->
           [label |-> "Successfully deployed token",
            details |-> [symbol |-> res.symbol, decimals |-> res.decimals,
                         creator |-> res.creator, txHash |-> res.txHash]]

\* a handler without its catch: what the operation throws leaves the handler
OperationResponseUncaught(outcome) ==
    IF outcome.kind = "thrown"
    THEN None
    ELSE [kind |-> "response", isError |-> FALSE, text |-> RenderOperation(outcome.result)]

\* the handler after the operation has returned or thrown
OperationResponse(outcome) ==
    IF outcome.kind = "thrown"
    THEN [kind |-> "response", isError |-> TRUE,
          text |-> [label |-> "Error", details |-> outcome.message]]
    ELSE [kind |-> "response", isError |-> FALSE, text |-> RenderOperation(outcome.result)]

\* the operation returns or throws and the handler answers
FinishOperation(r, outcome) ==
    /\ pc' = [pc EXCEPT ![r] = "done"]
    /\ result' = [result EXCEPT ![r] =
                     IF outcome.kind = "return" THEN outcome.result ELSE None]
    /\ response' = [response EXCEPT ![r] = OperationResponse(outcome)]

\* an operation that goes on whatever checkWalletExists found
WalletCheckedSkipped(walletExists) == "load"

\* if (!await checkWalletExists()) throw, otherwise load the wallet
WalletChecked(walletExists) == IF walletExists THEN "load" ELSE "throw"

\* the handler's branch up to the dynamic import in the operation
OperationCall(r) ==
    /\ pc[r] = "idle"
    /\ args[r] # None
    /\ args[r].kind \in {"transfer", "query", "deploy", "unknown"}
    /\ IF args[r].kind = "unknown"
       THEN /\ FinishOperation(r, ThrownWith("Unknown tool"))
       ELSE IF ValidOperationArgs(args[r])
       THEN /\ pc' = [pc EXCEPT ![r] = "opImport"]
            /\ UNCHANGED <<result, response>>
       ELSE /\ pc' = [pc EXCEPT ![r] = "done"]
            /\ response' = [response EXCEPT ![r] = InvalidArguments]
            /\ UNCHANGED result
    /\ UNCHANGED <<universe, walletFile, args, local, heard, calls>>
    /\ UNCHANGED fnVars

\* the imports answer; the operation runs to fs.access in checkWalletExists
OperationImportReturn(r) ==
    /\ pc[r] = "opImport"
    /\ \E sdk \in {Sdk("ok"), Sdk("importFails")} :
         /\ heard' = [heard EXCEPT ![r].sdk = sdk]
         /\ IF sdk.kind = "importFails"
            THEN FinishOperation(r, ThrownWith("Cannot find module"))
            ELSE /\ pc' = [pc EXCEPT ![r] = "opAccess"]
                 /\ UNCHANGED <<result, response>>
    /\ UNCHANGED <<universe, walletFile, args, local, calls>>
    /\ UNCHANGED fnVars

\* fs.access answers; the operation throws, or runs to fs.readFile in loadWallet
OperationAccessReturn(r) ==
    /\ pc[r] = "opAccess"
    /\ IF WalletChecked(walletFile # None) = "throw"
       THEN /\ FinishOperation(r, ThrownWith(WalletNotFound))
            /\ UNCHANGED calls
       ELSE /\ pc' = [pc EXCEPT ![r] = "opRead"]
            /\ calls' = [calls EXCEPT ![r].walletReads = @ + 1]
            /\ UNCHANGED <<result, response>>
    /\ UNCHANGED <<universe, walletFile, args, local, heard>>
    /\ UNCHANGED fnVars

\* fs.readFile answers; the operation makes the key and the messages and runs
\* to its network call: broadcast, or fetchBalance in queryBalance
OperationReadReturn(r) ==
    /\ pc[r] = "opRead"
    /\ \E read \in ReadOutcomes(walletFile), built \in MessageOutcomes("wide") :
         IF read.kind # "wallet"
         THEN /\ heard' = [heard EXCEPT ![r].wallet = read]
              /\ FinishOperation(r, ThrownWith("ENOENT"))
              /\ UNCHANGED calls
         ELSE IF built.kind = "throws"
         THEN /\ heard' = [heard EXCEPT ![r].wallet = read, ![r].message = built]
              /\ FinishOperation(r, ThrownWith("message"))
              /\ UNCHANGED calls
         ELSE /\ heard' = [heard EXCEPT ![r].wallet = read, ![r].message = built]
              /\ pc' = [pc EXCEPT ![r] = "opNetwork"]
              /\ calls' = IF args[r].kind = "query"
                          THEN [calls EXCEPT ![r].balance = @ + 1]
                          ELSE [calls EXCEPT ![r].broadcast = @ + 1]
              /\ UNCHANGED <<result, response>>
    /\ UNCHANGED <<universe, walletFile, args, local>>
    /\ UNCHANGED fnVars

\* the network call answers; the operation returns and the handler answers
OperationNetworkReturn(r) ==
    /\ pc[r] = "opNetwork"
    /\ \E resp \in NetworkResponses(args[r]) :
         /\ heard' = [heard EXCEPT ![r].tx = resp]
         /\ FinishOperation(r, OperationOutcome(args[r], heard[r].wallet, resp))
    /\ UNCHANGED <<universe, walletFile, args, local, calls>>
    /\ UNCHANGED fnVars

---------------------------------------------------------------------------
(* Runs of the pure functions                                              *)

MaxBestPrice == 3

NormAlphabet == {"i", "n", "j", "I", "N", "J", "dotless_i", "x"}
ShortDenoms == SeqsUpTo(NormAlphabet, MaxDenomLen)
DenomSet ==
    ShortDenoms
      \cup {factoryPrefix \o d : d \in ShortDenoms}
      \cup {ibcPrefix \o d : d \in SeqsUpTo(NormAlphabet, 1)}
      \cup {<<"f", "a", "c", "t", "o", "r", "y">>, <<"i", "b", "c">>,
            <<"F", "a", "c", "t", "o", "r", "y", "/", "x">>}

ValidSlippages == {s \in Slippages : ~SlipLess(s, Slip(0, 0)) /\ ~SlipLess(Slip(100, 0), s)}

NormCases == {[kind |-> "normalizeDenom", denom |-> d] : d \in DenomSet}
PriceCases ==
    {[kind |-> "price", isBuy |-> b, best |-> p, s1 |-> s1, s2 |-> s2] :
        b \in BOOLEAN, p \in 1..MaxBestPrice,
        s1 \in ValidSlippages \ {Slip(0, 0)}, s2 \in ValidSlippages}

\* the precisions of the quantity runs
MaxDecimals == 18
SomeDecimals == {0, 6, MaxDecimals}
QuantityAmounts == {1, 100}
QuantitySlippages == {Slip(7, 0), Slip(14, 0), Slip(100, 0)}

\* a BUY quantity is computed once; a SELL quantity twice, the second time
\* with another price and another quote precision
QuantityCases ==
    {[kind |-> "quantity", isBuy |-> TRUE, amount |-> a,
      price |-> ExecutionPrice(TRUE, best, s), baseDecimals |-> b, quoteDecimals |-> q,
      price2 |-> ExecutionPrice(TRUE, best, s), quoteDecimals2 |-> q] :
        a \in QuantityAmounts, best \in {1, MaxBestPrice},
        s \in {Slip(14, 0), Slip(100, 0)},
        b \in 0..MaxDecimals, q \in 0..MaxDecimals}
      \cup
    {[kind |-> "quantity", isBuy |-> FALSE, amount |-> a,
      price |-> ExecutionPrice(FALSE, MaxBestPrice, s), baseDecimals |-> b,
      quoteDecimals |-> q,
      price2 |-> ExecutionPrice(FALSE, MaxBestPrice, s2), quoteDecimals2 |-> q2] :
        a \in QuantityAmounts, s \in QuantitySlippages, s2 \in QuantitySlippages,
        b \in 0..MaxDecimals, q \in SomeDecimals, q2 \in SomeDecimals}

\* the asset records whose precision is parsed
DecimalsCases ==
    {[kind |-> "decimals", token |-> t] :
        t \in {Token(inj, d) : d \in 0..MaxDecimals}
                 \cup {TokenDecimal(inj, d) : d \in 0..MaxDecimals}
                 \cup {TokenWithout(inj), BareToken(inj)}}

\* the estimates: every base precision, some quote precisions
EstimateCases ==
    {[kind |-> "estimate", isBuy |-> buy, amount |-> a,
      price |-> ExecutionPrice(buy, best, s), baseDecimals |-> b, quoteDecimals |-> q] :
        buy \in BOOLEAN, a \in QuantityAmounts, best \in {1, MaxBestPrice},
        s \in QuantitySlippages, b \in 0..MaxDecimals, q \in SomeDecimals}

\* the quantity of lines 650-659 and the estimate of lines 719-721, valued
ApplyEstimate ==
    /\ fnCase.kind = "estimate"
    /\ Len(fnOut) = 0
    /\ fnOut' = <<EstimatedOutputValue(
                      EstimatedOutput(fnCase.isBuy,
                                      Quantity(fnCase.isBuy, fnCase.amount, fnCase.price,
                                               fnCase.baseDecimals, fnCase.quoteDecimals),
                                      fnCase.price, fnCase.baseDecimals,
                                      fnCase.quoteDecimals))>>
    /\ UNCHANGED fnCase
    /\ UNCHANGED swapVars

\* the quantity of lines 650-659, valued
ApplyQuantity ==
    /\ fnCase.kind = "quantity"
    /\ Len(fnOut) < (IF fnCase.isBuy THEN 1 ELSE 2)
    /\ fnOut' = Append(fnOut,
                       QuantityValue(
                           IF Len(fnOut) = 0
                           THEN Quantity(fnCase.isBuy, fnCase.amount, fnCase.price,
                                         fnCase.baseDecimals, fnCase.quoteDecimals)
                           ELSE Quantity(fnCase.isBuy, fnCase.amount, fnCase.price2,
                                         fnCase.baseDecimals, fnCase.quoteDecimals2)))
    /\ UNCHANGED fnCase
    /\ UNCHANGED swapVars

\* the precision of lines 640-648
ApplyDecimals ==
    /\ fnCase.kind = "decimals"
    /\ Len(fnOut) = 0
    /\ fnOut' = <<Decimals(fnCase.token)>>
    /\ UNCHANGED fnCase
    /\ UNCHANGED swapVars

\* normalizeDenom applied to the input, then to its own output
ApplyNormalize ==
    /\ fnCase.kind = "normalizeDenom"
    /\ Len(fnOut) < 2
    /\ fnOut' = Append(fnOut, normalizeDenom(IF Len(fnOut) = 0 THEN fnCase.denom
                                             ELSE fnOut[Len(fnOut)]))
    /\ UNCHANGED fnCase
    /\ UNCHANGED swapVars

\* the pricing applied to the same best price with s1, then with s2
ApplyPrice ==
    /\ fnCase.kind = "price"
    /\ Len(fnOut) < 2
    /\ fnOut' = Append(fnOut, ExecutionPrice(fnCase.isBuy, fnCase.best,
                                             IF Len(fnOut) = 0 THEN fnCase.s1
                                             ELSE fnCase.s2))
    /\ UNCHANGED fnCase
    /\ UNCHANGED swapVars

---------------------------------------------------------------------------
(* Specifications                                                          *)

IdleSwap ==
    /\ pc = [r \in Requests |-> "idle"]
    /\ local = [r \in Requests |-> NoLocals]
    /\ heard = [r \in Requests |-> NoHeard]
    /\ calls = [r \in Requests |-> NoCalls]
    /\ result = [r \in Requests |-> None]
    /\ response = [r \in Requests |-> None]

\* one swap-token call, every input
Init ==
    /\ universe = "wide"
    /\ walletFile \in {None, Wallet}
    /\ \E a \in WideArgs : args = [r \in Requests |-> IF r = 1 THEN a ELSE None]
    /\ IdleSwap
    /\ fnCase = None
    /\ fnOut = <<>>

\* a swap-token call per request, running concurrently
ConcInit ==
    /\ universe = "narrow"
    /\ walletFile = Wallet
    /\ args \in [Requests -> NarrowArgs]
    /\ IdleSwap
    /\ fnCase = None
    /\ fnOut = <<>>

PureInit ==
    /\ universe = "wide"
    /\ walletFile = None
    /\ args = [r \in Requests |-> None]
    /\ IdleSwap
    /\ fnCase \in NormCases \cup {c \in PriceCases : SlipLess(c.s1, c.s2)} \cup DecimalsCases
    /\ fnOut = <<>>

\* create-wallet calls, running concurrently
WalletInit ==
    /\ universe = "wide"
    /\ walletFile \in {None, Wallet}
    /\ args \in [Requests -> {None, CreateWalletArgs}]
    /\ IdleSwap
    /\ fnCase = None
    /\ fnOut = <<>>

Local(r) == CallTool(r) \/ SwapStart(r)
Remote(r) == MarketsReturn(r) \/ BookReturn(r) \/ BroadcastReturn(r)

Next == \E r \in Requests : Local(r) \/ Remote(r)

PureNext == ApplyNormalize \/ ApplyPrice \/ ApplyDecimals

QuantityInit ==
    /\ universe = "wide"
    /\ walletFile = None
    /\ args = [r \in Requests |-> None]
    /\ IdleSwap
    /\ fnCase \in QuantityCases \cup EstimateCases
    /\ fnOut = <<>>

QuantityNext == ApplyQuantity \/ ApplyEstimate

WalletNext ==
    \E r \in Requests :
        \/ CreateWalletCall(r)
        \/ ImportReturn(r)
        \/ AccessReturn(r)
        \/ ReadReturn(r)
        \/ MkdirReturn(r)
        \/ WriteReturn(r)

\* one call of any tool
ToolInit ==
    /\ universe = "narrow"
    /\ walletFile \in {None, Wallet}
    /\ \E a \in OperationArgs \cup NarrowArgs \cup {CreateWalletArgs, SwapArgs(inj, usdt, 0, None)} :
         args = [r \in Requests |-> IF r = 1 THEN a ELSE None]
    /\ IdleSwap
    /\ fnCase = None
    /\ fnOut = <<>>

ToolNext ==
    \/ \E r \in Requests :
          \/ OperationCall(r)
          \/ OperationImportReturn(r)
          \/ OperationAccessReturn(r)
          \/ OperationReadReturn(r)
          \/ OperationNetworkReturn(r)
    \/ WalletNext
    \/ Next

Spec == Init /\ [][Next]_vars
ToolSpec == ToolInit /\ [][ToolNext]_vars
ConcSpec == ConcInit /\ [][Next]_vars
PureSpec == PureInit /\ [][PureNext]_vars
QuantitySpec == QuantityInit /\ [][QuantityNext]_vars
WalletSpec == WalletInit /\ [][WalletNext]_vars

\* The event loop runs every step that waits for no remote answer; nothing in
\* the code bounds the wait for a remote answer.
FairSpec == Spec /\ \A r \in Requests : WF_vars(Local(r))

---------------------------------------------------------------------------
(* Properties                                                              *)

Called(r) == args[r] # None
Done(r) == pc[r] = "done"
Started(r) == Called(r) /\ ValidArgs(args[r]) /\ pc[r] # "idle"
IsSimulated(r) == result[r] # None /\ result[r].isSimulated
IsReal(r) == result[r] # None /\ ~result[r].isSimulated

\* the list of markets request r was given
HeardList(r) == ExtractMarkets(heard[r].markets)

\* no element of the list pairs the two normalized denominations
NoListedMatch(list, a) ==
    \A i \in 1..Len(list) :
        \/ list[i] = NullEntry
        \/ {list[i].baseToken.denom, list[i].quoteToken.denom}
             # {normalizeDenom(a.fromDenom), normalizeDenom(a.toDenom)}

\* the scan meets a null element before any match
NullBeforeMatch(list, a) ==
    \E i \in 1..Len(list) :
        list[i] = NullEntry /\ NoListedMatch(SubSeq(list, 1, i - 1), a)

MarketsFailed(r) ==
    /\ heard[r].markets # None
    /\ \/ heard[r].markets = Throw
       \/ NoListedMatch(HeardList(r), args[r])
       \/ NullBeforeMatch(HeardList(r), args[r])

BookFailed(r) == heard[r].book = Throw

PricingFailed(r) ==
    /\ heard[r].book # None
    /\ heard[r].book # Throw
    /\ \/ Len(TakenSide(local[r], heard[r].book)) = 0
       \/ TakenSide(local[r], heard[r].book)[1] = NullEntry

MessageFailed(r) == heard[r].message = Built("throws")

BroadcastFailed(r) == heard[r].tx = Throw

\* C1: a valid swap request in which the market listing, the order book
\* fetch, the pricing, the construction of the order message or the broadcast
\* failed ends with a result that has isSimulated = true, and the handler
\* answers without an error: nothing was thrown out of swapToken.
C1_FailureEndsSimulated ==
    \A r \in Requests :
        (/\ Started(r)
         /\ \/ MarketsFailed(r)
            \/ BookFailed(r)
            \/ PricingFailed(r)
            \/ MessageFailed(r)
            \/ BroadcastFailed(r))
        => /\ Done(r)
           /\ IsSimulated(r)
           /\ response[r] # None
           /\ ~response[r].isError

C1_Witness ==
    \E r \in Requests :
        /\ Done(r)
        /\ BroadcastFailed(r)
        /\ heard[r].message = Built("ok")
        /\ IsSimulated(r)

ResolvedMarket(r) == FindMarket(HeardList(r), args[r].fromDenom, args[r].toDenom)

AllStagesSucceeded(r) ==
    /\ heard[r].sdk = Sdk("ok")
    /\ heard[r].wallet = Wallet
    /\ heard[r].markets # None
    /\ heard[r].markets # Throw
    /\ ~NoListedMatch(HeardList(r), args[r])
    /\ ~NullBeforeMatch(HeardList(r), args[r])
    /\ heard[r].book # None
    /\ ~BookFailed(r)
    /\ ~PricingFailed(r)
    /\ heard[r].message = Built("ok")
    /\ heard[r].tx # None
    /\ heard[r].tx.kind = "tx"

\* C3: a result has isSimulated = false only if in that request a market was
\* resolved, the order book was fetched, a price was computed and the
\* broadcaster returned a transaction identifier; then txHash is that
\* identifier and marketId is the resolved market's id.  When every stage
\* succeeds the result has isSimulated = false.
C3_RealOnlyAfterEveryStage ==
    \A r \in Requests :
        Done(r) /\ Started(r) =>
            /\ IsReal(r) =>
                 /\ local[r].market # None
                 /\ local[r].market = ResolvedMarket(r)
                 /\ calls[r].book = 1
                 /\ heard[r].book.kind = "book"
                 /\ local[r].price # None
                 /\ calls[r].broadcast = 1
                 /\ heard[r].tx.kind = "tx"
                 /\ result[r].txHash = heard[r].tx.txHash
                 /\ result[r].marketId = ResolvedMarket(r).marketId
            /\ AllStagesSucceeded(r) => IsReal(r)

C3_Witness ==
    \E r \in Requests :
        /\ Done(r)
        /\ AllStagesSucceeded(r)
        /\ IsReal(r)
        /\ result[r].txHash = "tx2"
        /\ result[r].marketId = "m3"

\* C4: when the market listing supplies no match (the fetch fails, the list
\* is empty, or no listed market pairs the two normalized denominations) the
\* request ends with isSimulated = true, no order book is fetched, no order
\* is submitted and the handler answers without an error.
C4_NoMarketEndsSimulated ==
    \A r \in Requests :
        (/\ Started(r)
         /\ heard[r].markets # None
         /\ \/ heard[r].markets = Throw
            \/ NoListedMatch(HeardList(r), args[r]))
        => /\ Done(r)
           /\ IsSimulated(r)
           /\ calls[r].book = 0
           /\ calls[r].broadcast = 0
           /\ ~response[r].isError

C4_Witness ==
    \E r \in Requests :
        /\ Done(r)
        /\ heard[r].markets # None
        /\ heard[r].markets # Throw
        /\ Len(HeardList(r)) > 0
        /\ NoListedMatch(HeardList(r), args[r])
        /\ HeardList(r)[1] # NullEntry
        /\ args[r].fromDenom # args[r].toDenom
        /\ IsSimulated(r)

\* an amount <= 0 or a slippage outside [0, 100]
BadAmountOrSlippage(a) ==
    \/ a.amount <= 0
    \/ /\ a.slippage # None
       /\ \/ SlipLess(a.slippage, Slip(0, 0))
          \/ SlipLess(Slip(100, 0), a.slippage)

\* C5: a swap-token call with an amount <= 0 or a slippage outside [0, 100]
\* is answered with an "Invalid arguments" error and starts no stage: no
\* wallet read, no market fetch, no order book fetch, no broadcast, and no
\* result, simulated or real.
C5_InvalidArgumentsRejected ==
    \A r \in Requests :
        Called(r) /\ BadAmountOrSlippage(args[r]) =>
            /\ pc[r] \in {"idle", "done"}
            /\ calls[r] = NoCalls
            /\ heard[r] = NoHeard
            /\ result[r] = None
            /\ Done(r) => response[r] = InvalidArguments

C5_Witness ==
    \E r \in Requests :
        /\ Done(r)
        /\ args[r].amount = 0
        /\ args[r].slippage = Slip(1, 0)
        /\ response[r] = InvalidArguments

\* C6: the response to a simulated result carries the simulation label and
\* none of market id, order side and transaction hash; the response to a real
\* result carries the real-trade message and not the simulation label.
C6_SimulatedIsLabelled ==
    \A r \in Requests :
        Done(r) /\ result[r] # None =>
            /\ result[r].isSimulated <=> response[r].text.label = "SIMULATED SWAP ONLY"
            /\ result[r].isSimulated => response[r].text.details = None
            /\ ~result[r].isSimulated =>
                 /\ response[r].text.label = "Successfully swapped"
                 /\ response[r].text.details # None

C6_Witness ==
    \E r \in Requests :
        /\ Done(r)
        /\ IsSimulated(r)
        /\ response[r].text.label = "SIMULATED SWAP ONLY"
        /\ heard[r].markets # None

\* C7: every swap request that has started eventually ends with a result,
\* also when a remote call never answers.
C7_EveryRequestEnds ==
    \A r \in Requests : (pc[r] = "start") ~> (pc[r] = "done")

\* one request run alone against the answers h: what it returns and the
\* locals it is left with
SoloRun(a, h) ==
    LET s0 == StartStage(a, h.sdk, h.wallet, h.mock)
    IN  IF s0.kind = "end" THEN [outcome |-> s0.outcome, local |-> NoLocals]
        ELSE
    LET s1 == MarketsStage(a, h.markets, h.mock)
    IN  IF s1.kind = "end" THEN [outcome |-> s1.outcome, local |-> NoLocals]
        ELSE
    LET l1 == [NoLocals EXCEPT !.market = s1.market, !.isBuy = s1.isBuy]
        s2 == BookStage(a, l1, h.book, h.message, h.mock)
    IN  IF s2.kind = "end" THEN [outcome |-> s2.outcome, local |-> l1]
        ELSE
    LET l2 == [l1 EXCEPT !.buys = s2.buys, !.sells = s2.sells,
                         !.price = s2.price, !.quantity = s2.quantity,
                         !.msgParams = s2.msgParams]
    IN  [outcome |-> BroadcastStage(a, l2, h.tx, h.mock), local |-> l2]

\* C8: with swap requests interleaved at their remote calls, each request's
\* result, and the market, direction, price and quantity it worked with, are
\* those of the request run alone against the same answers.
C8_RequestsIndependent ==
    \A r \in Requests :
        Done(r) /\ Started(r) =>
            LET solo == SoloRun(args[r], heard[r])
            IN  /\ solo.outcome.kind = "return"
                /\ result[r] = solo.outcome.result
                /\ local[r] = solo.local

C8_Witness ==
    /\ \A r \in Requests : Done(r) /\ IsReal(r)
    /\ result[1].orderSide = "sell"
    /\ result[2].orderSide = "buy"
    /\ result[1].marketId # result[2].marketId
    /\ local[1].price # local[2].price

\* C9: normalizeDenom applied to its own output gives that output.
C9_NormalizeIdempotent ==
    (fnCase.kind = "normalizeDenom" /\ Len(fnOut) = 2) => fnOut[2] = fnOut[1]

C9_Witness ==
    /\ fnCase.kind = "normalizeDenom"
    /\ fnCase.denom = INJ
    /\ Len(fnOut) = 2
    /\ fnOut[1] = inj

\* C10: for one best price and slippages 0 < s1 < s2 <= 100 the BUY price
\* with s2 is strictly above the one with s1, and the SELL price with s2 is
\* strictly below the one with s1.
C10_PriceStrictlyMonotone ==
    (fnCase.kind = "price" /\ Len(fnOut) = 2) =>
        IF fnCase.isBuy
        THEN PriceLess(fnOut[1], fnOut[2])
        ELSE PriceLess(fnOut[2], fnOut[1])

\* the remote calls request r has made
RemoteCalls(r) == <<calls[r].markets, calls[r].book, calls[r].broadcast>>

\* C11: every result simulateSwap returns (it is the only place that makes
\* the mock transaction hash) has isSimulated = true, and the step that
\* produces it makes no remote call: no market fetch, no order book fetch and
\* no broadcast is added to those the request had made before.
C11_SimulateSwapFlaggedNoRemoteCall ==
    [][\A r \in Requests :
          (result[r] = None /\ result'[r] # None /\ result'[r].txHash = "0xmock")
          => /\ result'[r].isSimulated
             /\ result'[r].marketId = "mock-market-id"
             /\ RemoteCalls(r)' = RemoteCalls(r)]_vars

C11_Witness ==
    \E r \in Requests :
        /\ Done(r)
        /\ result[r] # None
        /\ result[r].txHash = "0xmock"
        /\ result[r].isSimulated
        /\ heard[r].sdk = Sdk("missing")
        /\ RemoteCalls(r) = <<0, 0, 0>>

\* request r is a create-wallet call that has passed checkWalletExists
Checked(r) ==
    args[r] = CreateWalletArgs /\ pc[r] \in {"awaitRead", "awaitMkdir", "awaitWrite", "done"}
                              /\ heard[r].sdk = Sdk("ok")

\* C12: a create-wallet call that finds the wallet file generates no key and
\* never writes the file, and when it returns, it returns the address read
\* from the file with isNew = false; a call that returns isNew = true found
\* no file and returns the address it generated; and the wallet file changes
\* only in the write of a call that found no file.
C12_ExistingWalletKept ==
    [][/\ \A r \in Requests :
             Checked(r)' =>
                 /\ local'[r].walletExists =>
                      /\ local'[r].generated = None
                      /\ calls'[r].walletWrites = 0
                      /\ pc'[r] # "awaitMkdir" /\ pc'[r] # "awaitWrite"
                      /\ (Done(r)' /\ heard'[r].wallet # Throw) =>
                             result'[r] = WalletResult(heard'[r].wallet.address, FALSE)
                 /\ (result'[r] # None /\ result'[r].isNew) =>
                      /\ ~local'[r].walletExists
                      /\ result'[r].address = Generated(r).address
       /\ walletFile' # walletFile =>
             \E r \in Requests :
                 /\ pc[r] = "awaitWrite"
                 /\ ~local[r].walletExists
                 /\ walletFile' = Generated(r)
                 /\ walletFile = None \/ \E q \in Requests : walletFile = Generated(q)]_vars

C12_Witness ==
    \E r \in Requests :
        /\ Checked(r)
        /\ Done(r)
        /\ local[r].walletExists
        /\ result[r] = WalletResult(Wallet.address, FALSE)
        /\ walletFile = Wallet
        /\ calls[r].walletReads = 1

\* the listing given to request r has been scanned without a throw
Scanned(r) ==
    /\ Started(r)
    /\ heard[r].markets # None
    /\ heard[r].markets # Throw
    /\ ~NullBeforeMatch(HeardList(r), args[r])

\* element i of the list pairs the two normalized denominations, either way
\* round
PairsDenoms(list, i, a) ==
    /\ list[i] # NullEntry
    /\ {list[i].baseToken.denom, list[i].quoteToken.denom}
         = {normalizeDenom(a.fromDenom), normalizeDenom(a.toDenom)}

\* C13: the market a request works with is the first element of the listing,
\* in the listing's order, whose {base, quote} denominations are the
\* unordered pair {normalize(fromDenom), normalize(toDenom)}: no earlier
\* element pairs them, later ones that do are not chosen, and the element is
\* chosen with the pair as base/quote or as quote/base; without such an
\* element no market is chosen.
C13_FirstMatchingMarket ==
    \A r \in Requests :
        Scanned(r) =>
            /\ \A i \in 1..Len(HeardList(r)) :
                  (/\ PairsDenoms(HeardList(r), i, args[r])
                   /\ \A j \in 1..(i - 1) : ~PairsDenoms(HeardList(r), j, args[r]))
                  => local[r].market = HeardList(r)[i]
            /\ local[r].market # None =>
                  \E i \in 1..Len(HeardList(r)) :
                      /\ PairsDenoms(HeardList(r), i, args[r])
                      /\ local[r].market = HeardList(r)[i]

C13_Witness ==
    \E r \in Requests :
        /\ Scanned(r)
        /\ HeardList(r) = <<M4, M1>>
        /\ args[r].fromDenom = INJ
        /\ args[r].toDenom = usdt
        /\ local[r].market = M4
        /\ Done(r)

\* C14: for the resolved market the order is a BUY exactly when the
\* normalized destination denomination is the market's base denomination and
\* a SELL otherwise; the side in the order message and the orderSide of the
\* real result are that direction.
C14_DirectionFromDestination ==
    \A r \in Requests :
        (Started(r) /\ local[r].market # None) =>
            LET buy == local[r].market.baseToken.denom = normalizeDenom(args[r].toDenom)
            IN  /\ local[r].isBuy <=> buy
                /\ local[r].msgParams # None =>
                      local[r].msgParams.orderSide
                        = IF buy THEN "SpotOrderSide.Buy" ELSE "SpotOrderSide.Sell"
                /\ IsReal(r) =>
                      /\ result[r].orderSide = IF buy THEN "buy" ELSE "sell"
                      /\ local[r].msgParams # None

C14_Witness ==
    \E r \in Requests :
        /\ IsReal(r)
        /\ local[r].market = M4
        /\ args[r].toDenom = INJ
        /\ result[r].orderSide = "sell"
        /\ local[r].msgParams.orderSide = "SpotOrderSide.Sell"

\* d is the word inj written in any mix of upper and lower case letters
EqualsInjIgnoringCase(d) ==
    Len(d) = Len(inj) /\ \A k \in 1..Len(inj) : d[k] \in {inj[k], INJ[k]}

\* d begins with factory/ or ibc/
HasStructuredPrefix(d) ==
    \E p \in {factoryPrefix, ibcPrefix} :
        Len(d) >= Len(p) /\ \A k \in 1..Len(p) : d[k] = p[k]

\* C15: normalizeDenom returns its input unchanged when it starts with
\* factory/ or ibc/, returns inj when the input equals inj ignoring case, and
\* returns every other input unchanged.
C15_NormalizeByCases ==
    (fnCase.kind = "normalizeDenom" /\ Len(fnOut) >= 1) =>
        fnOut[1] = IF HasStructuredPrefix(fnCase.denom) THEN fnCase.denom
                   ELSE IF EqualsInjIgnoringCase(fnCase.denom) THEN inj
                   ELSE fnCase.denom

\* request r has computed a price from the book it was given
Priced(r) == Started(r) /\ local[r].price # None

\* the prices of one side of the book given to request r
SidePrices(r, side) ==
    {ExtractSide(heard[r].book, side)[k].price :
        k \in 1..Len(ExtractSide(heard[r].book, side))}

\* the lowest ask and the highest bid of the book given to request r
BestAsk(r) == CHOOSE p \in SidePrices(r, "sells") : \A q \in SidePrices(r, "sells") : p <= q
BestBid(r) == CHOOSE p \in SidePrices(r, "buys") : \A q \in SidePrices(r, "buys") : p >= q

\* price is exactly best * (1 + sign * slippage / 100), the slippage being
\* pct + tiny * 10^-17 percent and the price c / 100 + e * 10^-18
ExactlyScaled(price, best, sign, slippage) ==
    /\ price.c = best * (100 + sign * slippage.pct)
    /\ 10 * price.e = sign * best * slippage.tiny

\* C16: in a BUY whose book has at least one ask the execution price is the
\* lowest ask of the book times (1 + slippage / 100), the slippage being the
\* percentage swapToken was called with, and is not below that ask.
C16_BuyPriceExact ==
    \A r \in Requests :
        (Priced(r) /\ local[r].isBuy) =>
            /\ ExactlyScaled(local[r].price, BestAsk(r), 1, PassedSlippage(args[r]))
            /\ ~PriceLess(local[r].price, [c |-> 100 * BestAsk(r), e |-> 0])

\* C17: in a SELL whose book has at least one bid the execution price is the
\* highest bid of the book times (1 - slippage / 100), the slippage being the
\* percentage swapToken was called with, and is not above that bid.
C17_SellPriceExact ==
    \A r \in Requests :
        (Priced(r) /\ ~local[r].isBuy) =>
            /\ ExactlyScaled(local[r].price, BestBid(r), -1, PassedSlippage(args[r]))
            /\ ~PriceLess([c |-> 100 * BestBid(r), e |-> 0], local[r].price)

\* fetchOrderbook has answered request r without throwing
BookHeard(r) == Started(r) /\ heard[r].book # None /\ heard[r].book # Throw

\* the asks and the bids of the answer: those of a well-formed book, and
\* nothing of a malformed answer or side
Asks(r) ==
    IF heard[r].book.kind = "book" /\ heard[r].book.sells.kind = "array"
    THEN heard[r].book.sells.items ELSE <<>>
Bids(r) ==
    IF heard[r].book.kind = "book" /\ heard[r].book.buys.kind = "array"
    THEN heard[r].book.buys.items ELSE <<>>
RelevantSide(r) == IF local[r].isBuy THEN Asks(r) ELSE Bids(r)

\* C18: the side of the book the direction needs decides alone.  A BUY
\* without asks or a SELL without bids, a malformed answer counting as an
\* empty book, ends with the simulated result and no broadcast, and so does
\* a relevant side that holds a null entry; a BUY with
\* asks or a SELL with bids goes on to the pricing, to the order message and,
\* once that is built, to the broadcast, whatever the other side holds.
C18_RelevantSideDecides ==
    \A r \in Requests :
        BookHeard(r) =>
            /\ Len(RelevantSide(r)) = 0 =>
                  /\ Done(r)
                  /\ IsSimulated(r)
                  /\ local[r].price = None
                  /\ calls[r].broadcast = 0
            /\ (Len(RelevantSide(r)) > 0 /\ RelevantSide(r)[1] = NullEntry) =>
                  /\ Done(r)
                  /\ IsSimulated(r)
                  /\ calls[r].broadcast = 0
            /\ (Len(RelevantSide(r)) > 0 /\ RelevantSide(r)[1] # NullEntry) =>
                  /\ heard[r].message # None
                  /\ heard[r].message = Built("ok") =>
                        /\ local[r].price # None
                        /\ calls[r].broadcast = 1

C18_Witness ==
    \E r \in Requests :
        /\ BookHeard(r)
        /\ local[r].isBuy
        /\ Len(Asks(r)) > 0
        /\ heard[r].book.buys = Null
        /\ local[r].price # None
        /\ IsReal(r)

\* r is x rounded to a whole number, half up, for x = n / d: r <= x + 1/2 < r + 1
RoundedQuotient(r, n, d) ==
    LET twice == Add(MulSmall(n, 2), d)
        low == Product(r, MulSmall(d, 2))
    IN  /\ Compare(low, twice) <= 0
        /\ Compare(twice, Add(low, MulSmall(d, 2))) < 0

\* C19: the BUY quantity is humanAmount * 10^quotePrecision / executionPrice,
\* the quotient taken to DecimalPlaces decimal places (the nearest, half up),
\* times 10^(basePrecision - quotePrecision), for every pair of precisions in
\* 0..MaxDecimals, base below quote included; for humanAmount = 100,
\* quotePrecision = 6, basePrecision = 18 and executionPrice = 2 it is
\* 5 * 10^19 = 100 * 10^6 / 2 * 10^12.
C19_BuyQuantity ==
    (fnCase.kind = "quantity" /\ fnCase.isBuy /\ Len(fnOut) = 1) =>
        LET quantity == fnOut[1]
            price == PriceValue(fnCase.price)
        IN  /\ quantity.exp
                 = fnCase.baseDecimals - fnCase.quoteDecimals - DecimalPlaces
            /\ RoundedQuotient(quantity.coef,
                               Shift(Limbs(fnCase.amount),
                                     fnCase.quoteDecimals + DecimalPlaces - price.exp),
                               price.coef)
            /\ (/\ fnCase.amount = 100
                /\ fnCase.quoteDecimals = 6
                /\ fnCase.baseDecimals = 18
                /\ fnCase.price = [c |-> 200, e |-> 0])
               => quantity.coef = Shift(Limbs(5), 19 - quantity.exp)

C19_Witness ==
    /\ fnCase.kind = "quantity"
    /\ fnCase.isBuy
    /\ fnCase.amount = 1
    /\ fnCase.baseDecimals = 6
    /\ fnCase.quoteDecimals = 18
    /\ fnCase.price = [c |-> 600, e |-> 0]
    /\ Len(fnOut) = 1
    /\ fnOut[1] = BigNumber(<<6667>> \o [i \in 1..8 |-> 6666] \o <<16>>, -32)

\* the whole number that the BigNumber v with v.exp >= 0 is
WholeValue(v) == Shift(v.coef, v.exp)

\* C20: the SELL quantity is humanAmount * 10^basePrecision, whatever the
\* execution price (and so the slippage) and the quote precision: computed
\* again with another price and another quote precision it is the same.
C20_SellQuantity ==
    (fnCase.kind = "quantity" /\ ~fnCase.isBuy) =>
        \A k \in 1..Len(fnOut) :
            /\ fnOut[k].exp >= 0
            /\ WholeValue(fnOut[k]) = Shift(Limbs(fnCase.amount), fnCase.baseDecimals)
            /\ fnOut[k] = fnOut[1]

C20_Witness ==
    /\ fnCase.kind = "quantity"
    /\ ~fnCase.isBuy
    /\ fnCase.amount = 100
    /\ fnCase.baseDecimals = 18
    /\ fnCase.quoteDecimals = 6
    /\ fnCase.quoteDecimals2 = 0
    /\ fnCase.price = ExecutionPrice(FALSE, MaxBestPrice, Slip(7, 0))
    /\ fnCase.price2 = ExecutionPrice(FALSE, MaxBestPrice, Slip(100, 0))
    /\ Len(fnOut) = 2
    /\ WholeValue(fnOut[2]) = Shift(Limbs(1), 20)

\* the double est is num / den up to the rounding of the arithmetic: half a
\* unit of the last of DecimalPlaces decimal places, and half a unit of the
\* last of MantissaBits bits
WithinRounding(est, num, den) ==
    IF est.mant = <<>> THEN Compare(MulSmall(Shift(num, DecimalPlaces), 2), den) <= 0
    ELSE LET up == IF est.exp > 0 THEN est.exp ELSE 0
             down == IF est.exp < 0 THEN -est.exp ELSE 0
             a == Product(TimesTwoTo(est.mant, up), den)
             b == TimesTwoTo(num, down)
             diff == IF Compare(a, b) >= 0 THEN Sub(a, b) ELSE Sub(b, a)
         IN  Compare(MulSmall(Shift(diff, DecimalPlaces), 2),
                     Product(den, Add(Shift(TimesTwoTo(Limbs(1), up), DecimalPlaces),
                                      TimesTwoTo(Limbs(1), down)))) <= 0

\* coef * 10^exp as a fraction of whole numbers
Numerator(coef, exp) == IF exp >= 0 THEN Shift(coef, exp) ELSE coef
Denominator(exp) == IF exp >= 0 THEN Limbs(1) ELSE Shift(Limbs(1), -exp)

\* C21: the estimated output of a real swap is, for a BUY, the submitted
\* quantity divided by 10^basePrecision, and for a SELL, the submitted
\* quantity times the execution price divided by 10^quotePrecision, each up to
\* the rounding of the arithmetic (the quotient to DecimalPlaces places, the
\* result to a double).
C21_EstimatedOutput ==
    (fnCase.kind = "estimate" /\ Len(fnOut) = 1) =>
        LET quantity == QuantityValue(Quantity(fnCase.isBuy, fnCase.amount, fnCase.price,
                                               fnCase.baseDecimals, fnCase.quoteDecimals))
            price == PriceValue(fnCase.price)
        IN  IF fnCase.isBuy
            THEN WithinRounding(fnOut[1],
                                Numerator(quantity.coef, quantity.exp - fnCase.baseDecimals),
                                Denominator(quantity.exp - fnCase.baseDecimals))
            ELSE WithinRounding(fnOut[1],
                                Numerator(Product(quantity.coef, price.coef),
                                          quantity.exp + price.exp - fnCase.quoteDecimals),
                                Denominator(quantity.exp + price.exp - fnCase.quoteDecimals))

\* a SELL of 100 at 2.7899999999999997 with base precision 6 and quote
\* precision 18: the quotient to 20 places is 2.79e-10, and so is the estimate
C21_Witness ==
    /\ fnCase.kind = "estimate"
    /\ ~fnCase.isBuy
    /\ fnCase.amount = 100
    /\ fnCase.price = [c |-> 279, e |-> -300]
    /\ fnCase.baseDecimals = 6
    /\ fnCase.quoteDecimals = 18
    /\ fnOut = <<Double(<<9705, 5875, 6448, 5396>>, -84)>>

\* the asset is a bare denomination, or its record carries no decimals
OmitsDecimals(token) ==
    \/ "kind" \in DOMAIN token
    \/ "decimals" \notin DOMAIN token /\ "decimal" \notin DOMAIN token

Parsed == fnCase.kind = "decimals" /\ Len(fnOut) = 1

\* C22: the precision used for an asset is 18 exactly when the asset's record
\* omits its decimals or the asset is a bare denomination; a record that
\* declares decimals other than 18 never gets 18, and the default is not 0.
C22_DefaultExactlyWhenOmitted ==
    Parsed =>
        /\ OmitsDecimals(fnCase.token) => fnOut[1] = 18
        /\ fnOut[1] = 18 =>
              \/ OmitsDecimals(fnCase.token)
              \/ "decimals" \in DOMAIN fnCase.token /\ fnCase.token.decimals = 18
              \/ "decimal" \in DOMAIN fnCase.token /\ fnCase.token.decimal = 18

\* C22, the part that holds: an asset without declared decimals gets 18
C22_OmittedGetsDefault ==
    Parsed /\ OmitsDecimals(fnCase.token) => fnOut[1] = 18

\* the imports, the check of the SDK or the wallet failed
StartFailed(r) ==
    /\ heard[r].sdk # None
    /\ heard[r].sdk # Sdk("ok") \/ heard[r].wallet = None

StageFailed(r) ==
    \/ StartFailed(r)
    \/ MarketsFailed(r)
    \/ BookFailed(r)
    \/ PricingFailed(r)
    \/ MessageFailed(r)
    \/ BroadcastFailed(r)

\* C23: within one swap request the remote calls happen strictly in the
\* order market-list fetch, order-book fetch, broadcast: every step makes at
\* most one of them, the market list is fetched first, the order book only in
\* the step in which the market list has come back and a market was found,
\* the broadcast only in the step in which the order book has come back and
\* price and order message were made; no call is made twice (the broadcast is
\* not retried), and once a stage has failed no remote call is made.
C23_RemoteCallsInOrder ==
    [][\A r \in Requests :
          LET before == RemoteCalls(r)
              after == RemoteCalls(r)'
          IN  /\ after \in {before, <<1, 0, 0>>, <<1, 1, 0>>, <<1, 1, 1>>}
              /\ after = <<1, 0, 0>> /\ after # before => before = <<0, 0, 0>>
              /\ after = <<1, 1, 0>> /\ after # before =>
                    /\ before = <<1, 0, 0>>
                    /\ heard[r].markets = None
                    /\ heard'[r].markets \notin {None, Throw}
                    /\ ~MarketsFailed(r)'
              /\ after = <<1, 1, 1>> /\ after # before =>
                    /\ before = <<1, 1, 0>>
                    /\ heard[r].book = None
                    /\ heard'[r].book \notin {None, Throw}
                    /\ ~PricingFailed(r)'
                    /\ heard'[r].message = Built("ok")
              /\ StageFailed(r) => after = before
              /\ StageFailed(r)' => after = before]_vars

\* a request that has made each of the three calls once, and is answered
C23_Witness ==
    /\ RemoteCalls(1) = <<1, 1, 1>>
    /\ Done(1)
    /\ heard[1].tx = TxResponse("tx2")

AllAnswered == \A r \in Requests : Called(r) => Done(r)

\* C24: under every interleaving of concurrent create-wallet calls, no call
\* overwrites a wallet that is in the file, and once all calls have finished
\* every call that returned an address returned the address stored in the
\* wallet file, and at most one call reported isNew = true.
C24_ConcurrentCreateWallet ==
    /\ [][walletFile # None => walletFile' = walletFile]_vars
    /\ [](AllAnswered =>
            /\ \A r \in Requests :
                  result[r] # None =>
                      walletFile # None /\ result[r].address = walletFile.address
            /\ Cardinality({r \in Requests : result[r] # None /\ result[r].isNew}) <= 1)

\* the slippage the caller asked for: the value supplied, 1 when none was
CallerSlippage(a) == IF a.slippage = None THEN Slip(1, 0) ELSE a.slippage

\* C25: for every slippage that passes validation, 0 included, the execution
\* price is computed with the caller's value: it is the price the pricing gives
\* for the head of the taken side and that value, and 1 percent is used only
\* when the caller supplied no slippage.
C25_CallerSlippageUsed ==
    \A r \in Requests :
        Priced(r) =>
            local[r].price = ExecutionPrice(local[r].isBuy,
                                            TakenSide(local[r], heard[r].book)[1].price,
                                            CallerSlippage(args[r]))

\* the asset's record declares decimals
DeclaresDecimals(token) == "kind" \notin DOMAIN token /\ "decimals" \in DOMAIN token

\* C26: when the asset record of the matched market declares decimals d in
\* 0..18, d = 0 included, the unit conversion uses d as that asset's
\* precision: a SELL quantity is the amount times 10^d for the base asset's d,
\* a BUY quantity the amount times 10^d for the quote asset's d, divided by
\* the price and scaled by 10^(base - quote).
C26_DeclaredDecimalsUsed ==
    \A r \in Requests :
        (Started(r) /\ local[r].quantity # None) =>
            LET base == local[r].market.baseToken
                quote == local[r].market.quoteToken
                quantity == local[r].quantity
            IN  IF local[r].isBuy
                THEN /\ DeclaresDecimals(quote) => quantity.numExp = quote.decimals
                     /\ DeclaresDecimals(base) =>
                           quantity.numExp + quantity.mulExp = base.decimals
                ELSE DeclaresDecimals(base) => quantity.numExp = base.decimals

---------------------------------------------------------------------------
(* The operations without a wallet file                                    *)

NetworkCalls(r) ==
    calls[r].markets + calls[r].book + calls[r].broadcast + calls[r].balance

WalletOperation(r) == Called(r) /\ args[r].kind \in {"transfer", "query", "deploy"}

\* C27: while the wallet file does not exist no operation broadcasts a
\* transaction.  transfer-token, query-balance and deploy-token make no network
\* call, and once their imports have succeeded they end with an error response
\* that carries 'Wallet not found' and with no result; swap-token fetches no
\* markets, broadcasts nothing and ends with a result whose isSimulated is true.
C27_NoWalletNoBroadcast ==
    \A r \in Requests :
        Called(r) /\ walletFile = None =>
            /\ calls[r].broadcast = 0
            /\ WalletOperation(r) =>
                 /\ NetworkCalls(r) = 0
                 /\ pc[r] \notin {"opRead", "opNetwork"}
                 /\ Done(r) /\ ValidOperationArgs(args[r]) /\ heard[r].sdk = Sdk("ok") =>
                      /\ result[r] = None
                      /\ response[r] = [kind |-> "response", isError |-> TRUE,
                                        text |-> [label |-> "Error",
                                                  details |-> WalletNotFound]]
            /\ args[r].kind = "args" =>
                 /\ calls[r].markets = 0
                 /\ calls[r].book = 0
                 /\ Done(r) /\ ValidArgs(args[r]) => IsSimulated(r)

\* a deploy-token call without a wallet file has ended with 'Wallet not found'
C27_Witness ==
    /\ walletFile = None
    /\ Done(1)
    /\ args[1].kind = "deploy"
    /\ args[1].decimals = None
    /\ ValidOperationArgs(args[1])
    /\ response[1].isError
    /\ response[1].text.details = WalletNotFound
    /\ NetworkCalls(1) = 0

---------------------------------------------------------------------------
(* The handler's answer                                                    *)

\* arguments the schema of the named tool rejects
Rejected(a) ==
    CASE a.kind = "args" -> ~ValidArgs(a)
      [] a.kind \in {"transfer", "query", "deploy"} -> ~ValidOperationArgs(a)
      [] OTHER -> FALSE

Untouched(r) ==
    /\ local[r] = NoLocals
    /\ heard[r] = NoHeard
    /\ calls[r] = NoCalls
    /\ result[r] = None

\* C28: the handler never throws.  A request has a response exactly when it has
\* ended, and the response never changes afterwards; the response of a request
\* whose operation returned no result, one naming an unknown tool included, has
\* isError = true; rejected arguments end the request at once with the
\* 'Invalid arguments' response and no step of an operation taken.
C28_HandlerAlwaysAnswers ==
    /\ [][\A r \in Requests :
            /\ response[r] # None => response'[r] = response[r]
            /\ Called(r) /\ Rejected(args[r]) /\ pc[r] = "idle" => pc'[r] \in {"idle", "done"}]_vars
    /\ [](\A r \in Requests :
            /\ response[r] # None <=> Done(r)
            /\ Done(r) =>
                 /\ response[r].kind = "response"
                 /\ result[r] = None => response[r].isError
                 /\ args[r].kind = "unknown" => response[r].isError
                 /\ Rejected(args[r]) => response[r] = InvalidArguments /\ Untouched(r))

\* a transfer-token call whose broadcast failed has ended with an error response
C28_Witness ==
    /\ Done(1)
    /\ args[1].kind = "transfer"
    /\ heard[1].tx = Throw
    /\ calls[1].broadcast = 1
    /\ result[1] = None
    /\ response[1].isError

=============================================================================
